---------------------------- MODULE Spec2Model ----------------------------
(***************************************************************************)
(* MiniBus (codehz/mini_bus_rust): the registry, the two brokers, the      *)
(* shared bucket, the per-connection ExternalEntity and the gateway loop   *)
(* that dispatches a connection's requests to them.                        *)
(*                                                                         *)
(* One action is one request handled by handle_loop (src/src/main.rs),     *)
(* with every entity method, broker fan-out and frame write it performs.   *)
(* Weak maps are kept with their physical entries; an entry whose entity   *)
(* has been dropped is expired and invisible to every lookup.              *)
(***************************************************************************)
EXTENDS Integers, Sequences, FiniteSets, TLC

\* ------------------------------------------------------------------ bounds
\* client connections that are ever accepted
NumClients == 2
\* request ids a client may put in a frame (stand for the u32 space)
MaxReqId == 2
\* responder ids random() may return (stand for the u32 space)
MaxRid == 2

Clients == 1..NumClients
ReqIds == 1..MaxReqId
Rids == 0..(MaxRid - 1)

\* names a client may try to bind, and the keys of its kv store
Names == {"alice", "bob"}
Keys == {"x"}
\* request payloads (byte vectors)
Payloads == {<<>>, <<7>>}

\* ------------------------------------------------------------------ values
None == <<>>
Some(x) == <<x>>

\* the bytes of the string literals of the source
Utf8(s) ==
    CASE s = "registry" -> <<114, 101, 103, 105, 115, 116, 114, 121>>
      [] s = "shared" -> <<115, 104, 97, 114, 101, 100>>
      [] s = "alice" -> <<97, 108, 105, 99, 101>>
      [] s = "bob" -> <<98, 111, 98>>
      [] s = "x" -> <<120>>
      [] s = "y" -> <<121>>
      [] s = "m" -> <<109>>
      [] s = "duplicated" -> <<100, 117, 112, 108, 105, 99, 97, 116, 101, 100>>
      [] s = "too many names" -> <<116, 111, 111, 32, 109, 97, 110, 121, 32, 110, 97, 109, 101, 115>>
      [] s = "not allowned" -> <<110, 111, 116, 32, 97, 108, 108, 111, 119, 110, 101, 100>>
      [] s = "not found" -> <<110, 111, 116, 32, 102, 111, 117, 110, 100>>
      [] s = "not allowed" -> <<110, 111, 116, 32, 97, 108, 108, 111, 119, 101, 100>>
      [] s = "target not found" -> <<116, 97, 114, 103, 101, 116, 32, 110, 111, 116, 32, 102, 111, 117, 110, 100>>
      [] s = "no name" -> <<110, 111, 32, 110, 97, 109, 101>>
      [] s = "Unknown command" -> <<85, 110, 107, 110, 111, 119, 110, 32, 99, 111, 109, 109, 97, 110, 100>>
      [] s = "not supported" -> <<110, 111, 116, 32, 115, 117, 112, 112, 111, 114, 116, 101, 100>>
      [] s = "broken pipe" -> <<98, 114, 111, 107, 101, 110, 32, 112, 105, 112, 101>>
      [] s = "private" -> <<112, 114, 105, 118, 97, 116, 101>>
      [] s = "protected" -> <<112, 114, 111, 116, 101, 99, 116, 101, 100>>
      [] s = "public" -> <<112, 117, 98, 108, 105, 99>>
      [] s = "RESP" -> <<82, 69, 83, 80>>
      [] s = "NEXT" -> <<78, 69, 88, 84>>
      [] s = "CALL" -> <<67, 65, 76, 76>>
      [] s = "PING" -> <<80, 73, 78, 71>>
      [] s = "GET" -> <<71, 69, 84>>

\* std::io::Result
Ok(v) == [ok |-> TRUE, val |-> v, err |-> ""]
strerr(e) == [ok |-> FALSE, val |-> None, err |-> e]

\* packet.rs
Success == [tag |-> "Success", data |-> <<>>]
SuccessWithData(d) == [tag |-> "SuccessWithData", data |-> d]
Failed(d) == [tag |-> "Failed", data |-> d]
new_resp(reqid, payload) == [kind |-> "RESP", reqid |-> reqid, payload |-> payload]
new_next(reqid, payload) == [kind |-> "NEXT", reqid |-> reqid, payload |-> payload]
new_call(reqid, payload) == [kind |-> "CALL", reqid |-> reqid, payload |-> payload]
errtoresp(e) == Failed(Utf8(e.err))

encode_short_text(s) == <<Len(Utf8(s))>> \o Utf8(s)

EventKey(owner, key) == <<owner, key>>

\* map helpers (HashMap / BTreeMap insert and remove)
Put(m, k, v) == [x \in (DOMAIN m) \cup {k} |-> IF x = k THEN v ELSE m[x]]
Remove(m, k) == [x \in (DOMAIN m) \ {k} |-> m[x]]
EmptyMap == [x \in {} |-> None]

\* ------------------------------------------------------------------- codec
\* A u32 or usize value is kept as two 16-bit limbs, hi * 2^16 + lo, so that
\* 2^32 - 1 can be written; usize values stay far below 2^64 here.
Limb == 2^16
Num(hi, lo) == [hi |-> hi, lo |-> lo]
U32Max == Num(Limb - 1, Limb - 1)

\* val < 128, val & 0b01111111, val >> 7, val << 7 and a 7-bit value added to
\* a value whose low seven bits are clear
Below128(v) == v.hi = 0 /\ v.lo < 128
Low7(v) == v.lo % 128
Shr7(v) == Num(v.hi \div 128, (v.lo \div 128) + (v.hi % 128) * 512)
Shl7(v) == Num(v.hi * 128 + (v.lo \div 512), (v.lo % 512) * 128)
Plus(b, v) == Num(v.hi, v.lo + b)

\* what a decoder returns: the value and the bytes left unread, or an error
Decoded(val, rest) == [ok |-> TRUE, val |-> val, rest |-> rest, err |-> ""]
DecodeErr(e) == [ok |-> FALSE, val |-> None, rest |-> <<>>, err |-> e]

\* read_exact: n bytes, or UnexpectedEof when the stream ends before them
read_exact(bytes, n) ==
    IF Len(bytes) >= n
    THEN Decoded(SubSeq(bytes, 1, n), SubSeq(bytes, n + 1, Len(bytes)))
    ELSE DecodeErr("eof")

\* encode_varuint that sets the continuation bit on the last byte too
RECURSIVE encode_varuint_all_flagged(_)
encode_varuint_all_flagged(val) ==
    IF Below128(val) THEN <<val.lo + 128>>
    ELSE <<Low7(val) + 128>> \o encode_varuint_all_flagged(Shr7(val))

RECURSIVE encode_varuint(_)
encode_varuint(val) ==
    IF Below128(val) THEN <<val.lo>>
    ELSE <<Low7(val) + 128>> \o encode_varuint(Shr7(val))

RECURSIVE decode_varuint(_)
decode_varuint(bytes) ==
    LET b == read_exact(bytes, 1)
    IN IF ~b.ok THEN b
       ELSE IF b.val[1] < 128 THEN Decoded(Num(0, b.val[1]), b.rest)
       ELSE LET more == decode_varuint(b.rest)
            IN IF ~more.ok THEN more
               ELSE Decoded(Plus(b.val[1] % 128, Shl7(more.val)), more.rest)

\* a length of the model's byte vectors (below 2^16) as a usize, and back
Usize(n) == Num(0, n)
encode_binary(str) == encode_varuint(Usize(Len(str))) \o str

decode_binary(bytes) ==
    LET len == decode_varuint(bytes)
    IN IF ~len.ok THEN len
       ELSE IF len.val.hi # 0 THEN DecodeErr("eof")
       ELSE read_exact(len.rest, len.val.lo)

\* transmute between u32 and [u8; 4]: the bytes in the byte order of the host
ByteOrders == {"little", "big"}
InOrder(order, bytes) ==
    IF order = "little" THEN bytes ELSE <<bytes[4], bytes[3], bytes[2], bytes[1]>>

encode_reqid(order, id) ==
    InOrder(order, <<id.lo % 256, id.lo \div 256, id.hi % 256, id.hi \div 256>>)

decode_reqid(order, bytes) ==
    LET buf == read_exact(bytes, 4)
    IN IF ~buf.ok THEN buf
       ELSE LET b == InOrder(order, buf.val)
            IN Decoded(Num(b[3] + 256 * b[4], b[1] + 256 * b[2]), buf.rest)

\* a decoded ShortText is its bytes
decode_short_text(bytes) ==
    LET len == read_exact(bytes, 1)
    IN IF ~len.ok THEN len ELSE read_exact(len.rest, len.val[1])

\* Request
EncodeRequest(order, data) ==
    encode_reqid(order, data.reqid) \o encode_short_text(data.command)
        \o encode_binary(data.payload)

DecodeRequest(order, bytes) ==
    LET reqid == decode_reqid(order, bytes)
    IN IF ~reqid.ok THEN reqid
       ELSE LET command == decode_short_text(reqid.rest)
            IN IF ~command.ok THEN command
               ELSE LET payload == decode_binary(command.rest)
                    IN IF ~payload.ok THEN payload
                       ELSE Decoded([reqid |-> reqid.val, command |-> command.val,
                                     payload |-> payload.val], payload.rest)

\* ResponseKind
ResponseKinds == {"RESP", "NEXT", "CALL"}
EncodeResponseKind(kind) == Utf8(kind)

DecodeResponseKind(bytes) ==
    LET buf == read_exact(bytes, 4)
    IN IF ~buf.ok THEN buf
       ELSE IF \E k \in ResponseKinds : Utf8(k) = buf.val
            THEN Decoded(CHOOSE k \in ResponseKinds : Utf8(k) = buf.val, buf.rest)
            ELSE DecodeErr("not match")

\* ResponsePayload
EncodeResponsePayload(data) ==
    CASE data.tag = "Success" -> <<0>>
      [] data.tag = "SuccessWithData" -> <<1>> \o encode_binary(data.data)
      [] data.tag = "Failed" -> <<255>> \o encode_binary(data.data)

DecodeResponsePayload(bytes) ==
    LET typ == read_exact(bytes, 1)
    IN IF ~typ.ok THEN typ
       ELSE IF typ.val[1] = 0 THEN Decoded(Success, typ.rest)
       ELSE IF typ.val[1] \in {1, 255}
            THEN LET data == decode_binary(typ.rest)
                 IN IF ~data.ok THEN data
                    ELSE Decoded(IF typ.val[1] = 1 THEN SuccessWithData(data.val)
                                 ELSE Failed(data.val), data.rest)
       ELSE DecodeErr("not match")

\* Response
EncodeResponse(order, data) ==
    encode_reqid(order, data.reqid) \o EncodeResponseKind(data.kind)
        \o EncodeResponsePayload(data.payload)

DecodeResponse(order, bytes) ==
    LET reqid == decode_reqid(order, bytes)
    IN IF ~reqid.ok THEN reqid
       ELSE LET kind == DecodeResponseKind(reqid.rest)
            IN IF ~kind.ok THEN kind
               ELSE LET payload == DecodeResponsePayload(kind.rest)
                    IN IF ~payload.ok THEN payload
                       ELSE Decoded([kind |-> kind.val, reqid |-> reqid.val,
                                     payload |-> payload.val], payload.rest)

\* ------------------------------------------------------------------- state
VARIABLES
    status,            \* per client: "none" (not yet accepted), "open", "closed" (entity dropped)
    writerOk,          \* per client: the write half of the stream still accepts frames
    forward,           \* BidiMap.forward: name -> entity, weak values
    reverse,           \* BidiMap.reverse: entity -> name, weak keys
    name,              \* ExternalEntity.name
    kvstore,           \* ExternalEntity.kvstore
    pending_call,      \* ExternalEntity.pending_call: responder id -> request id
    call_record,       \* ExternalEntity.call_record: responder id -> weak caller
    notify_subscribe,  \* ExternalEntity.notify_subscribe
    event_subscribe,   \* ExternalEntity.event_subscribe
    event_map,         \* event Broker.map: EventKey -> weak set of subscribers
    notify_map,        \* notify Broker.map
    shared_data,       \* SharedStorage.data
    last,              \* the request the last step handled, and the payload it answered
    emitted,           \* per client: the frames the last step wrote to its connection
    written,           \* the writes of the last step on all connections, in order
    published,         \* the Broker.send calls of the last step, in order
    outstanding,       \* history: calls forwarded to a callee and not yet answered
    codec,             \* a byte stream between an encoder and a decoder, with what
                       \* was written to it and what was read back
    alt_map,           \* per broker, Broker.alt_map: EventKey -> list of alternative receivers
    map_guard,         \* per broker: the task that holds the lock of Broker.map (0: free)
    alt_guard,         \* per broker: the task that holds the lock of Broker.alt_map (0: free)
    sending,           \* per task: where it stands in the Broker::send it is running
    begun,             \* history: the sends that have begun their fan-out
    refused,           \* history: the alternative receivers that returned false
    delivered,         \* history: per subscriber, the publications it received, in order
    writer_guard,      \* per client: the task that holds the lock of ExternalEntity.writer (0: free)
    wire,              \* per client: the bytes written to the connection's stream, in order
    writing,           \* per task: the write calls left of the frame it is sending
    framed,            \* history: per client, the frames whose send took the writer's lock
    held,              \* per task: the guards of the asynchronous mutexes it holds
    prog,              \* per task: the lock and unlock operations left of its request
    fresh,             \* per broker: the static of its getter is still None
    stale              \* per broker: the tasks inside get_or_insert_with that read
                       \* static as None and have yet to write it

\* the variables of the code seen at the grain of its awaits
brokervars == <<alt_map, map_guard, alt_guard, sending, begun, refused, delivered>>

writervars == <<writer_guard, wire, writing, framed>>

lockvars == <<held, prog>>

instvars == <<fresh, stale>>

\* the variables the gateway's handlers leave alone
sidevars == <<codec, brokervars, writervars, lockvars, instvars>>

\* the variables of the gateway
gatewayvars == <<status, writerOk, forward, reverse, name, kvstore, pending_call, call_record,
                 notify_subscribe, event_subscribe, event_map, notify_map, shared_data,
                 last, emitted, written, published, outstanding>>

vars == <<status, writerOk, forward, reverse, name, kvstore, pending_call, call_record,
          notify_subscribe, event_subscribe, event_map, notify_map, shared_data,
          last, emitted, written, published, outstanding, sidevars>>

RegistryEnt == NumClients + 1
SharedEnt == NumClients + 2

NoFrames == [c \in Clients |-> <<>>]
NoReply == [tag |-> "NoReply", data |-> <<>>]

Request(conn, cmd, reqid, target, key, val, tag) ==
    [conn |-> conn, cmd |-> cmd, reqid |-> reqid, target |-> target, key |-> key,
     val |-> val, tag |-> tag]

\* no stream yet carries anything
NoStream == [type |-> "Request", order |-> "little", sent |-> <<>>, wire |-> <<>>,
             got |-> <<>>]

\* no connection yet accepted: the statics hold the two built-in names
InitGateway ==
    /\ status = [c \in Clients |-> "none"]
    /\ writerOk = [c \in Clients |-> TRUE]
    /\ forward = [n \in {"registry", "shared"} |->
                    IF n = "registry" THEN RegistryEnt ELSE SharedEnt]
    /\ reverse = EmptyMap
    /\ name = [c \in Clients |-> None]
    /\ kvstore = [c \in Clients |-> EmptyMap]
    /\ pending_call = [c \in Clients |-> EmptyMap]
    /\ call_record = [c \in Clients |-> EmptyMap]
    /\ notify_subscribe = [c \in Clients |-> EmptyMap]
    /\ event_subscribe = [c \in Clients |-> EmptyMap]
    /\ event_map = EmptyMap
    /\ notify_map = EmptyMap
    /\ shared_data = EmptyMap
    /\ last = [req |-> Request(0, "init", 0, "", "", <<>>, ""), res |-> NoReply]
    /\ emitted = NoFrames
    /\ written = <<>>
    /\ published = <<>>
    /\ outstanding = {}

\* tasks that call Broker::send, and the alternative receivers ever boxed
NumSenders == 2
NumAlt == 3
Senders == 1..NumSenders
AltIds == 1..NumAlt
Brokers == {"event", "notify"}

Idle == [pc |-> "idle", broker |-> "", key |-> <<>>, data |-> None, n |-> 0,
         todo |-> {}, idx |-> 0, deleted |-> <<>>]

\* Broker::new: both maps empty, both locks free, no send under way
InitBroker ==
    /\ alt_map = [b \in Brokers |-> EmptyMap]
    /\ map_guard = [b \in Brokers |-> 0]
    /\ alt_guard = [b \in Brokers |-> 0]
    /\ sending = [t \in Senders |-> Idle]
    /\ begun = 0
    /\ refused = {}
    /\ delivered = [weak |-> [c \in Clients |-> <<>>], alt |-> [a \in AltIds |-> <<>>]]

\* tasks that call ExternalEntity::send
NumWriters == 2
Writers == 1..NumWriters

NotWriting == [conn |-> 0, parts |-> <<>>]

\* ExternalEntity::new: the writer unlocked, nothing written after the greeting
InitWriter ==
    /\ writer_guard = [c \in Clients |-> 0]
    /\ wire = [c \in Clients |-> <<>>]
    /\ writing = [t \in Writers |-> NotWriting]
    /\ framed = [c \in Clients |-> <<>>]

\* no task holds a guard or is inside a request
InitLocks ==
    /\ held = [t \in Clients |-> {}]
    /\ prog = [t \in Clients |-> <<>>]

\* the statics of get_notify_broker and get_event_broker before their first call
InitInstance ==
    /\ fresh = [b \in Brokers |-> TRUE]
    /\ stale = [b \in Brokers |-> {}]

Init ==
    /\ InitGateway
    /\ codec = NoStream
    /\ InitBroker
    /\ InitWriter
    /\ InitLocks
    /\ InitInstance

\* -------------------------------------------------------- the world record
\* The mutable state the entity methods read and write while one request is
\* handled, with the frames written (out) and the Broker.send calls made (pubs).
Here ==
    [forward |-> forward, reverse |-> reverse, name |-> name, kvstore |-> kvstore,
     pending_call |-> pending_call, call_record |-> call_record,
     notify_subscribe |-> notify_subscribe, event_subscribe |-> event_subscribe,
     event_map |-> event_map, notify_map |-> notify_map, shared_data |-> shared_data,
     outstanding |-> outstanding, out |-> NoFrames, log |-> <<>>, pubs |-> <<>>,
     res |-> Ok(None)]

\* an Arc to the entity can still be obtained: the statics, or a connection's entity
Alive(e) == e \in {RegistryEnt, SharedEnt} \/ (e \in Clients /\ status[e] = "open")

\* a strong map in place of the weak one: an entry outlives its entity
WeakValueGet_strong(m, k) == IF k \in DOMAIN m THEN Some(m[k]) ELSE None

\* weak_table lookups: an expired entry is absent
WeakValueGet(m, k) == IF k \in DOMAIN m /\ Alive(m[k]) THEN Some(m[k]) ELSE None
WeakKeyGet(m, e) == IF e \in DOMAIN m /\ Alive(e) THEN Some(m[e]) ELSE None

\* ------------------------------------------------------------ ExternalEntity
\* ExternalEntity::send: one frame written and flushed under the writer guard
send(w, c, resp) ==
    IF writerOk[c]
    THEN [w EXCEPT !.out[c] = Append(@, resp), !.log = Append(@, <<c, resp>>)]
    ELSE w

NextPayload(data) == IF data # None THEN SuccessWithData(data[1]) ELSE Success

\* on_event that writes its NEXT frame twice
on_event_twice(w, c, key, data) ==
    IF key \in DOMAIN w.event_subscribe[c]
    THEN send(send(w, c, new_next(w.event_subscribe[c][key], NextPayload(data))),
              c, new_next(w.event_subscribe[c][key], NextPayload(data)))
    ELSE w

on_event(w, c, key, data) ==
    IF key \in DOMAIN w.event_subscribe[c]
    THEN send(w, c, new_next(w.event_subscribe[c][key], NextPayload(data)))
    ELSE w

on_notify(w, c, key, data) ==
    IF key \in DOMAIN w.notify_subscribe[c]
    THEN send(w, c, new_next(w.notify_subscribe[c][key], NextPayload(data)))
    ELSE w

update_name(w, c, n) == IF c \in Clients THEN [w EXCEPT !.name[c] = n] ELSE w

register_event(w, c, reqid, ek) == [w EXCEPT !.event_subscribe[c] = Put(@, ek, reqid)]

\* register_notify that keeps the request id of the first subscription
register_notify_keeps_first(w, c, reqid, ek) ==
    IF ek \in DOMAIN w.notify_subscribe[c] THEN w
    ELSE [w EXCEPT !.notify_subscribe[c] = Put(@, ek, reqid)]

register_notify(w, c, reqid, ek) == [w EXCEPT !.notify_subscribe[c] = Put(@, ek, reqid)]

\* -------------------------------------------------------------------- Broker
BrokerMap(w, broker) == IF broker = "event" THEN w.event_map ELSE w.notify_map

receive(w, broker, c, key, data) ==
    IF broker = "event" THEN on_event(w, c, key, data) ELSE on_notify(w, c, key, data)

\* the weak subscribers of key that still upgrade
LiveSubscribers(w, broker, key) ==
    IF key \in DOMAIN BrokerMap(w, broker)
    THEN {c \in BrokerMap(w, broker)[key] : Alive(c)}
    ELSE {}

RECURSIVE Fanout(_, _, _, _, _)
Fanout(w, broker, subs, key, data) ==
    IF subs = {} THEN w
    ELSE LET c == CHOOSE x \in subs : TRUE
         IN Fanout(receive(w, broker, c, key, data), broker, subs \ {c}, key, data)

\* a send that walks the subscribers twice
Broker_send_twice(w, broker, key, data) ==
    [Fanout(Fanout(w, broker, LiveSubscribers(w, broker, key), key, data),
            broker, LiveSubscribers(w, broker, key), key, data)
        EXCEPT !.pubs = Append(w.pubs, [broker |-> broker, key |-> key, data |-> data])]

\* Broker::send as one request of the gateway runs it: the weak fan-out. Nothing
\* in the gateway calls alternative_register, so the list send then looks up in
\* alt_map is absent; the steps of a send with alternative receivers are
\* SendLockMap .. SendFinish below.
Broker_send(w, broker, key, data) ==
    [Fanout(w, broker, LiveSubscribers(w, broker, key), key, data)
        EXCEPT !.pubs = Append(w.pubs, [broker |-> broker, key |-> key, data |-> data])]

RegisterIn(m, c, key) ==
    IF key \in DOMAIN m THEN [m EXCEPT ![key] = @ \cup {c}] ELSE Put(m, key, {c})

Broker_register(w, broker, c, key) ==
    IF broker = "event"
    THEN [w EXCEPT !.event_map = RegisterIn(@, c, key)]
    ELSE [w EXCEPT !.notify_map = RegisterIn(@, c, key)]

\* a cleanup that removes every key whose set held an expired subscriber
CleanedMap_drops_keys(m) ==
    LET kept == {k \in DOMAIN m : \A c \in m[k] : Alive(c)}
    IN [k \in kept |-> m[k]]

CleanedMap(m) ==
    LET kept == {k \in DOMAIN m : {c \in m[k] : Alive(c)} # {}}
    IN [k \in kept |-> {c \in m[k] : Alive(c)}]

Broker_cleanup(w, broker) ==
    IF broker = "event"
    THEN [w EXCEPT !.event_map = CleanedMap(@)]
    ELSE [w EXCEPT !.notify_map = CleanedMap(@)]

\* ------------------------------------------------------------------ Registry
Registry_find(w, key) == WeakValueGet(w.forward, key)

Registry_get(w, sender, key) ==
    IF WeakValueGet(w.forward, key) # None
    THEN [w EXCEPT !.res = Ok(None)]
    ELSE [w EXCEPT !.res = strerr("not found")]

\* Registry::set without the reverse lookup: a second name is accepted
Registry_set_second_name(w, sender, key, val) ==
    IF WeakValueGet(w.forward, key) # None
    THEN [w EXCEPT !.res = strerr("duplicated")]
    ELSE LET w1 == [w EXCEPT !.forward = Put(@, key, sender),
                             !.reverse = Put(@, sender, key)]
             w2 == update_name(w1, sender, Some(key))
             w3 == Broker_send(w2, "event", EventKey("registry", key), Some(val))
         IN [w3 EXCEPT !.res = Ok(None)]

\* Registry::set without the contains_key test: a bound name is taken over
Registry_set_overwrites(w, sender, key, val) ==
    IF WeakKeyGet(w.reverse, sender) # None
    THEN [w EXCEPT !.res = strerr("too many names")]
    ELSE LET w1 == [w EXCEPT !.forward = Put(@, key, sender),
                             !.reverse = Put(@, sender, key)]
             w2 == update_name(w1, sender, Some(key))
             w3 == Broker_send(w2, "event", EventKey("registry", key), Some(val))
         IN [w3 EXCEPT !.res = Ok(None)]

Registry_set(w, sender, key, val) ==
    IF WeakValueGet(w.forward, key) # None
    THEN [w EXCEPT !.res = strerr("duplicated")]
    ELSE IF WeakKeyGet(w.reverse, sender) # None
    THEN [w EXCEPT !.res = strerr("too many names")]
    ELSE LET w1 == [w EXCEPT !.forward = Put(@, key, sender),
                             !.reverse = Put(@, sender, key)]
             w2 == update_name(w1, sender, Some(key))
             w3 == Broker_send(w2, "event", EventKey("registry", key), Some(val))
         IN [w3 EXCEPT !.res = Ok(None)]

\* Registry::del that forgets the reverse entry
Registry_del_keeps_reverse(w, sender, key) ==
    IF WeakValueGet(w.forward, key) # None
    THEN IF WeakValueGet(w.forward, key)[1] = sender
         THEN LET w1 == Broker_send(w, "event", EventKey("registry", key), None)
              IN [w1 EXCEPT !.forward = Remove(@, key), !.res = Ok(None)]
         ELSE [w EXCEPT !.res = strerr("not allowned")]
    ELSE [w EXCEPT !.res = strerr("not found")]

\* Registry::del without the ptr::eq test: any sender may release a name
Registry_del_any_sender(w, sender, key) ==
    IF WeakValueGet(w.forward, key) # None
    THEN LET w1 == Broker_send(w, "event", EventKey("registry", key), None)
         IN [w1 EXCEPT !.forward = Remove(@, key),
                       !.reverse = Remove(@, w.forward[key]),
                       !.res = Ok(None)]
    ELSE [w EXCEPT !.res = strerr("not found")]

Registry_del(w, sender, key) ==
    IF WeakValueGet(w.forward, key) # None
    THEN IF WeakValueGet(w.forward, key)[1] = sender
         THEN LET w1 == Broker_send(w, "event", EventKey("registry", key), None)
              IN [w1 EXCEPT !.forward = Remove(@, key),
                            !.reverse = Remove(@, sender),
                            !.res = Ok(None)]
         ELSE [w EXCEPT !.res = strerr("not allowned")]
    ELSE [w EXCEPT !.res = strerr("not found")]

\* the (name, tag) pairs Registry::keys collects, in no particular order
Registry_keys(w, sender) ==
    {<<n, IF w.forward[n] = sender THEN "public" ELSE "protected">> :
        n \in {k \in DOMAIN w.forward : Alive(w.forward[k])}}

\* ------------------------------------------------------------- SharedStorage
Shared_get(w, sender, key) ==
    [w EXCEPT !.res = Ok(IF key \in DOMAIN w.shared_data
                         THEN Some(w.shared_data[key]) ELSE None)]

Shared_set(w, sender, key, val) ==
    LET w1 == Broker_send(w, "event", EventKey("shared", key), Some(val))
    IN [w1 EXCEPT !.shared_data = Put(@, key, val), !.res = Ok(None)]

\* the method ends in todo!(): after the publication and the removal it panics
Panic == [ok |-> FALSE, val |-> None, err |-> "panic"]

Shared_del(w, sender, key) ==
    LET w1 == Broker_send(w, "event", EventKey("shared", key), None)
    IN [w1 EXCEPT !.shared_data = Remove(@, key), !.res = Panic]

\* --------------------------------------------------- ExternalEntity: kv store
ValueWithAccess(value, tag) == [value |-> value, tag |-> tag]

\* get without the match arm for AccessTag::Private
ExternalEntity_get_any_tag(w, e, sender, key) ==
    IF key \in DOMAIN w.kvstore[e]
    THEN [w EXCEPT !.res = Ok(w.kvstore[e][key].value)]
    ELSE [w EXCEPT !.res = strerr("not found")]

ExternalEntity_get(w, e, sender, key) ==
    IF key \in DOMAIN w.kvstore[e]
    THEN IF w.kvstore[e][key].tag = "private"
         THEN [w EXCEPT !.res = strerr("not allowed")]
         ELSE [w EXCEPT !.res = Ok(w.kvstore[e][key].value)]
    ELSE [w EXCEPT !.res = strerr("not found")]

\* the publication a kv mutation makes when the entity has a name
PublishOwn(w, e, key, data) ==
    IF w.name[e] # None
    THEN Broker_send(w, "event", EventKey(w.name[e][1], key), data)
    ELSE w

\* set that treats Protected like Public
ExternalEntity_set_protected(w, e, sender, key, val) ==
    IF key \in DOMAIN w.kvstore[e]
    THEN IF w.kvstore[e][key].tag # "private"
         THEN [PublishOwn(w, e, key, Some(val))
                  EXCEPT !.kvstore[e][key].value = Some(val), !.res = Ok(None)]
         ELSE [w EXCEPT !.res = strerr("not allowned")]
    ELSE [w EXCEPT !.res = strerr("not found")]

\* set that stores the value without the Broker::send
ExternalEntity_set_no_publish(w, e, sender, key, val) ==
    IF key \in DOMAIN w.kvstore[e]
    THEN IF w.kvstore[e][key].tag = "public"
         THEN [w EXCEPT !.kvstore[e][key].value = Some(val), !.res = Ok(None)]
         ELSE [w EXCEPT !.res = strerr("not allowned")]
    ELSE [w EXCEPT !.res = strerr("not found")]

ExternalEntity_set(w, e, sender, key, val) ==
    IF key \in DOMAIN w.kvstore[e]
    THEN IF w.kvstore[e][key].tag = "public"
         THEN [PublishOwn(w, e, key, Some(val))
                  EXCEPT !.kvstore[e][key].value = Some(val), !.res = Ok(None)]
         ELSE [w EXCEPT !.res = strerr("not allowned")]
    ELSE [w EXCEPT !.res = strerr("not found")]

\* del that removes the row, as del_private does
ExternalEntity_del_removes_row(w, e, sender, key) ==
    IF key \in DOMAIN w.kvstore[e]
    THEN IF w.kvstore[e][key].tag = "public"
         THEN [PublishOwn(w, e, key, None)
                  EXCEPT !.kvstore[e] = Remove(@, key), !.res = Ok(None)]
         ELSE [w EXCEPT !.res = strerr("not allowned")]
    ELSE [w EXCEPT !.res = strerr("not found")]

ExternalEntity_del(w, e, sender, key) ==
    IF key \in DOMAIN w.kvstore[e]
    THEN IF w.kvstore[e][key].tag = "public"
         THEN [PublishOwn(w, e, key, None)
                  EXCEPT !.kvstore[e][key].value = None, !.res = Ok(None)]
         ELSE [w EXCEPT !.res = strerr("not allowned")]
    ELSE [w EXCEPT !.res = strerr("not found")]

ExternalEntity_keys(w, e, sender) ==
    {<<k, w.kvstore[e][k].tag>> : k \in DOMAIN w.kvstore[e]}

\* set_acl that replaces the row, losing the stored value
set_acl_resets_value(w, e, key, acl) ==
    [w EXCEPT !.kvstore[e] = Put(@, key, ValueWithAccess(None, acl))]

set_acl(w, e, key, acl) ==
    IF key \in DOMAIN w.kvstore[e]
    THEN [w EXCEPT !.kvstore[e][key].tag = acl]
    ELSE [w EXCEPT !.kvstore[e] = Put(@, key, ValueWithAccess(None, acl))]

get_private(w, e, key) ==
    IF key \in DOMAIN w.kvstore[e] THEN w.kvstore[e][key].value ELSE None

\* set_private that keeps the tag of an existing row
set_private_keeps_tag(w, e, key, value) ==
    [PublishOwn(w, e, key, Some(value))
        EXCEPT !.kvstore[e] = Put(@, key, ValueWithAccess(Some(value),
                     IF key \in DOMAIN w.kvstore[e] THEN w.kvstore[e][key].tag
                     ELSE "public"))]

set_private(w, e, key, value) ==
    [PublishOwn(w, e, key, Some(value))
        EXCEPT !.kvstore[e] = Put(@, key, ValueWithAccess(Some(value), "public"))]

del_private(w, e, key) ==
    [PublishOwn(w, e, key, None) EXCEPT !.kvstore[e] = Remove(@, key)]

\* ------------------------------------------------ ExternalEntity: call tables
assign_call_ids(w, a, reqid, resid) == [w EXCEPT !.pending_call[a] = Put(@, resid, reqid)]

remove_call_id(w, a, resid) == [w EXCEPT !.pending_call[a] = Remove(@, resid)]

call_resp(w, a, resid, val) ==
    IF resid \in DOMAIN w.pending_call[a]
    THEN send([w EXCEPT !.pending_call[a] = Remove(@, resid)],
              a, new_resp(w.pending_call[a][resid], val))
    ELSE w

\* the keys gen_random_key may return: any u32 that is not a key of the map
gen_random_key(m) == Rids \ DOMAIN m

\* call that returns the write error without remove_call_id
ExternalEntity_call_keeps_pending(w, e, sender, reqid, key, val, id) ==
    LET buf == encode_short_text(key) \o val
        w1 == assign_call_ids(w, sender, reqid, id)
        w2 == [w1 EXCEPT !.call_record[e] = Put(@, id, sender)]
    IN IF writerOk[e]
       THEN [send(w2, e, new_call(id, SuccessWithData(buf)))
                EXCEPT !.res = Ok(None),
                       !.outstanding = @ \cup {[caller |-> sender, callee |-> e,
                                                reqid |-> reqid, rid |-> id]}]
       ELSE [w2 EXCEPT !.res = strerr("broken pipe")]

\* id is the responder id gen_random_key returned
ExternalEntity_call(w, e, sender, reqid, key, val, id) ==
    LET buf == encode_short_text(key) \o val
        w1 == assign_call_ids(w, sender, reqid, id)
        w2 == [w1 EXCEPT !.call_record[e] = Put(@, id, sender)]
    IN IF writerOk[e]
       THEN [send(w2, e, new_call(id, SuccessWithData(buf)))
                EXCEPT !.res = Ok(None),
                       !.outstanding = @ \cup {[caller |-> sender, callee |-> e,
                                                reqid |-> reqid, rid |-> id]}]
       ELSE [remove_call_id(w2, sender, id) EXCEPT !.res = strerr("broken pipe")]

recv_call_resp(w, e, reqid, payload) ==
    IF reqid \in DOMAIN w.call_record[e]
    THEN LET tgt == w.call_record[e][reqid]
             w1 == [w EXCEPT !.call_record[e] = Remove(@, reqid),
                             !.outstanding = {o \in @ : ~(o.callee = e /\ o.rid = reqid)}]
         IN IF Alive(tgt) THEN call_resp(w1, tgt, reqid, payload) ELSE w1
    ELSE w

\* ------------------------------------------------- dispatch on dyn Entity
Entity_get(w, tgt, sender, key) ==
    CASE tgt = RegistryEnt -> Registry_get(w, sender, key)
      [] tgt = SharedEnt -> Shared_get(w, sender, key)
      [] OTHER -> ExternalEntity_get(w, tgt, sender, key)

Entity_set(w, tgt, sender, key, val) ==
    CASE tgt = RegistryEnt -> Registry_set(w, sender, key, val)
      [] tgt = SharedEnt -> Shared_set(w, sender, key, val)
      [] OTHER -> ExternalEntity_set(w, tgt, sender, key, val)

Entity_del(w, tgt, sender, key) ==
    CASE tgt = RegistryEnt -> Registry_del(w, sender, key)
      [] tgt = SharedEnt -> Shared_del(w, sender, key)
      [] OTHER -> ExternalEntity_del(w, tgt, sender, key)

Entity_keys(w, tgt, sender) ==
    CASE tgt = RegistryEnt -> Registry_keys(w, sender)
      [] tgt = SharedEnt -> {<<k, "public">> : k \in DOMAIN w.shared_data}
      [] OTHER -> ExternalEntity_keys(w, tgt, sender)

\* Entity::call: only ExternalEntity overrides the default "not supported"
Entity_call(w, tgt, sender, reqid, key, val, id) ==
    IF tgt \in Clients
    THEN ExternalEntity_call(w, tgt, sender, reqid, key, val, id)
    ELSE [w EXCEPT !.res = strerr("not supported")]

\* ------------------------------------------------------------- handle_client
\* drop(entity): the connection's fields are freed; weak references to it expire
Drop(w, c) ==
    [w EXCEPT !.name[c] = None, !.kvstore[c] = EmptyMap,
              !.pending_call[c] = EmptyMap, !.call_record[c] = EmptyMap,
              !.notify_subscribe[c] = EmptyMap, !.event_subscribe[c] = EmptyMap,
              !.outstanding = {o \in @ : o.caller # c /\ o.callee # c}]

\* the RESP written under request id 0 instead of the request's
Commit_reqid_zero(c, req, reply, w) ==
    \E answer \in {IF w.res = Panic THEN None ELSE reply} :
    \E over \in {w.res = Panic \/ (answer # None /\ ~writerOk[c])} :
    \E w2 \in {IF over THEN Drop(w, c)
               ELSE IF answer # None THEN send(w, c, new_resp(0, answer[1]))
               ELSE w} :
       /\ status' = IF over THEN [status EXCEPT ![c] = "closed"] ELSE status
       /\ forward' = w2.forward
       /\ reverse' = w2.reverse
       /\ name' = w2.name
       /\ kvstore' = w2.kvstore
       /\ pending_call' = w2.pending_call
       /\ call_record' = w2.call_record
       /\ notify_subscribe' = w2.notify_subscribe
       /\ event_subscribe' = w2.event_subscribe
       /\ event_map' = w2.event_map
       /\ notify_map' = w2.notify_map
       /\ shared_data' = w2.shared_data
       /\ outstanding' = w2.outstanding
       /\ emitted' = w2.out
       /\ written' = w2.log
       /\ published' = w2.pubs
       /\ last' = [req |-> req, res |-> IF answer = None THEN NoReply ELSE answer[1]]
       /\ UNCHANGED writerOk
       /\ UNCHANGED sidevars

\* The end of one pass of handle_loop's loop for connection c: the RESP (if the
\* command answers) is written; a failed write of it, or a panic, ends the
\* connection's task and drops its entity.
Commit(c, req, reply, w) ==
    \E answer \in {IF w.res = Panic THEN None ELSE reply} :
    \E over \in {w.res = Panic \/ (answer # None /\ ~writerOk[c])} :
    \E w2 \in {IF over THEN Drop(w, c)
               ELSE IF answer # None THEN send(w, c, new_resp(req.reqid, answer[1]))
               ELSE w} :
       /\ status' = IF over THEN [status EXCEPT ![c] = "closed"] ELSE status
       /\ forward' = w2.forward
       /\ reverse' = w2.reverse
       /\ name' = w2.name
       /\ kvstore' = w2.kvstore
       /\ pending_call' = w2.pending_call
       /\ call_record' = w2.call_record
       /\ notify_subscribe' = w2.notify_subscribe
       /\ event_subscribe' = w2.event_subscribe
       /\ event_map' = w2.event_map
       /\ notify_map' = w2.notify_map
       /\ shared_data' = w2.shared_data
       /\ outstanding' = w2.outstanding
       /\ emitted' = w2.out
       /\ written' = w2.log
       /\ published' = w2.pubs
       /\ last' = [req |-> req, res |-> IF answer = None THEN NoReply ELSE answer[1]]
       /\ UNCHANGED writerOk
       /\ UNCHANGED sidevars

\* The end of handle_loop for connection c after a last frame (if any) was
\* written: break, or an Err returned by `?`; handle_client drops the entity.
CommitAndStop(c, req, reply, w) ==
    \E w2 \in {Drop(IF reply # None THEN send(w, c, new_resp(req.reqid, reply[1])) ELSE w,
                    c)} :
       /\ status' = [status EXCEPT ![c] = "closed"]
       /\ forward' = w2.forward
       /\ reverse' = w2.reverse
       /\ name' = w2.name
       /\ kvstore' = w2.kvstore
       /\ pending_call' = w2.pending_call
       /\ call_record' = w2.call_record
       /\ notify_subscribe' = w2.notify_subscribe
       /\ event_subscribe' = w2.event_subscribe
       /\ event_map' = w2.event_map
       /\ notify_map' = w2.notify_map
       /\ shared_data' = w2.shared_data
       /\ outstanding' = w2.outstanding
       /\ emitted' = w2.out
       /\ written' = w2.log
       /\ published' = w2.pubs
       /\ last' = [req |-> req, res |-> IF reply = None THEN NoReply ELSE reply[1]]
       /\ UNCHANGED writerOk
       /\ UNCHANGED sidevars

\* the accept loop spawns handle_client, which creates the connection's entity
Connect(c) ==
    /\ status[c] = "none"
    /\ \A d \in Clients : d < c => status[d] # "none"
    /\ status' = [status EXCEPT ![c] = "open"]
    /\ last' = [req |-> Request(c, "connect", 0, "", "", <<>>, ""), res |-> NoReply]
    /\ emitted' = NoFrames
    /\ written' = <<>>
    /\ published' = <<>>
    /\ UNCHANGED <<writerOk, forward, reverse, name, kvstore, pending_call, call_record,
                   notify_subscribe, event_subscribe, event_map, notify_map, shared_data,
                   outstanding>>
    /\ UNCHANGED sidevars

\* STOP, or a read that fails (the peer closed): handle_loop returns and the
\* entity is dropped (the cleanups handle_client then spawns are Cleanup steps)
CloseConnection(c) ==
    /\ status[c] = "open"
    /\ status' = [status EXCEPT ![c] = "closed"]
    /\ name' = Drop(Here, c).name
    /\ kvstore' = Drop(Here, c).kvstore
    /\ pending_call' = Drop(Here, c).pending_call
    /\ call_record' = Drop(Here, c).call_record
    /\ notify_subscribe' = Drop(Here, c).notify_subscribe
    /\ event_subscribe' = Drop(Here, c).event_subscribe
    /\ outstanding' = Drop(Here, c).outstanding
    /\ last' = [req |-> Request(c, "STOP", 0, "", "", <<>>, ""), res |-> NoReply]
    /\ emitted' = NoFrames
    /\ written' = <<>>
    /\ published' = <<>>
    /\ UNCHANGED <<writerOk, forward, reverse, event_map, notify_map, shared_data>>
    /\ UNCHANGED sidevars

\* the peer stops reading: later writes to the connection fail
BreakWriter(c) ==
    /\ status[c] = "open"
    /\ writerOk[c]
    /\ writerOk' = [writerOk EXCEPT ![c] = FALSE]
    /\ last' = [req |-> Request(c, "break", 0, "", "", <<>>, ""), res |-> NoReply]
    /\ emitted' = NoFrames
    /\ written' = <<>>
    /\ published' = <<>>
    /\ UNCHANGED <<status, forward, reverse, name, kvstore, pending_call, call_record,
                   notify_subscribe, event_subscribe, event_map, notify_map, shared_data,
                   outstanding>>
    /\ UNCHANGED sidevars

\* A Broker::cleanup task spawned by handle_client runs. A map holds expired
\* subscribers only after a connection ended, and then handle_client has spawned
\* a cleanup that has not yet swept them; a cleanup that finds nothing expired
\* changes nothing.
Cleanup(b) ==
    /\ map_guard[b] = 0
    /\ \E k \in DOMAIN BrokerMap(Here, b) : \E c \in BrokerMap(Here, b)[k] : ~Alive(c)
    /\ event_map' = Broker_cleanup(Here, b).event_map
    /\ notify_map' = Broker_cleanup(Here, b).notify_map
    /\ last' = [req |-> Request(0, "cleanup", 0, b, "", <<>>, ""), res |-> NoReply]
    /\ emitted' = NoFrames
    /\ written' = <<>>
    /\ published' = <<>>
    /\ UNCHANGED <<status, writerOk, forward, reverse, name, kvstore, pending_call,
                   call_record, notify_subscribe, event_subscribe, shared_data, outstanding>>
    /\ UNCHANGED sidevars

\* --------------------------------------------------------------- handle_loop
TargetNotFound == Failed(Utf8("target not found"))

HandleSET(c, r, t, k, v) ==
    /\ status[c] = "open"
    /\ LET req == Request(c, "SET", r, t, k, v, "")
           target == Registry_find(Here, t)
       IN IF target # None
          THEN \E w \in {Entity_set(Here, target[1], c, k, v)} :
                  Commit(c, req, Some(IF w.res.ok THEN Success ELSE errtoresp(w.res)), w)
          ELSE Commit(c, req, Some(TargetNotFound), Here)

HandleGET(c, r, t, k) ==
    /\ status[c] = "open"
    /\ LET req == Request(c, "GET", r, t, k, <<>>, "")
           target == Registry_find(Here, t)
       IN IF target # None
          THEN \E w \in {Entity_get(Here, target[1], c, k)} :
                  Commit(c, req,
                         Some(IF w.res.ok
                              THEN IF w.res.val # None THEN SuccessWithData(w.res.val[1])
                                   ELSE Success
                              ELSE errtoresp(w.res)),
                         w)
          ELSE Commit(c, req, Some(TargetNotFound), Here)

HandleDEL(c, r, t, k) ==
    /\ status[c] = "open"
    /\ LET req == Request(c, "DEL", r, t, k, <<>>, "")
           target == Registry_find(Here, t)
       IN IF target # None
          THEN \E w \in {Entity_del(Here, target[1], c, k)} :
                  Commit(c, req, Some(IF w.res.ok THEN Success ELSE errtoresp(w.res)), w)
          ELSE Commit(c, req, Some(TargetNotFound), Here)

\* the orders in which a map's iterator may yield the pairs
Orderings(S) ==
    {f \in [1..Cardinality(S) -> S] : \A i, j \in DOMAIN f : f[i] = f[j] => i = j}

RECURSIVE EncodeKeys(_)
EncodeKeys(list) ==
    IF list = <<>> THEN <<>>
    ELSE encode_short_text(list[1][2]) \o encode_short_text(list[1][1])
            \o EncodeKeys(Tail(list))

HandleKEYS(c, r, t) ==
    /\ status[c] = "open"
    /\ LET req == Request(c, "KEYS", r, t, "", <<>>, "")
           target == Registry_find(Here, t)
       IN IF target # None
          THEN \E list \in Orderings(Entity_keys(Here, target[1], c)) :
                  Commit(c, req, Some(SuccessWithData(EncodeKeys(list))), Here)
          ELSE Commit(c, req, Some(TargetNotFound), Here)

HandleOBSERVE(c, r, t, k) ==
    /\ status[c] = "open"
    /\ \E w \in {register_event(Broker_register(Here, "event", c, EventKey(t, k)),
                                 c, r, EventKey(t, k))} :
          Commit(c, Request(c, "OBSERVE", r, t, k, <<>>, ""), Some(Success), w)

HandleLISTEN(c, r, t, k) ==
    /\ status[c] = "open"
    /\ \E w \in {register_notify(Broker_register(Here, "notify", c, EventKey(t, k)),
                                  c, r, EventKey(t, k))} :
          Commit(c, Request(c, "LISTEN", r, t, k, <<>>, ""), Some(Success), w)

\* SET PRIVATE that acknowledges before it stores and publishes
HandleSET_PRIVATE_acks_first(c, r, k, v) ==
    /\ status[c] = "open"
    /\ Commit(c, Request(c, "SET PRIVATE", r, "", k, v, ""), None,
              set_private(send(Here, c, new_resp(r, Success)), c, k, v))

HandleSET_PRIVATE(c, r, k, v) ==
    /\ status[c] = "open"
    /\ Commit(c, Request(c, "SET PRIVATE", r, "", k, v, ""), Some(Success),
              set_private(Here, c, k, v))

HandleGET_PRIVATE(c, r, k) ==
    /\ status[c] = "open"
    /\ Commit(c, Request(c, "GET PRIVATE", r, "", k, <<>>, ""),
              Some(IF get_private(Here, c, k) # None
                   THEN SuccessWithData(get_private(Here, c, k)[1])
                   ELSE Failed(Utf8("not found"))),
              Here)

HandleDEL_PRIVATE(c, r, k) ==
    /\ status[c] = "open"
    /\ Commit(c, Request(c, "DEL PRIVATE", r, "", k, <<>>, ""), Some(Success),
              del_private(Here, c, k))

HandleACL(c, r, k, acl) ==
    /\ status[c] = "open"
    /\ Commit(c, Request(c, "ACL", r, "", k, <<>>, acl), Some(Success),
              set_acl(Here, c, k, acl))

HandleCALL(c, r, t, k, v) ==
    /\ status[c] = "open"
    /\ LET req == Request(c, "CALL", r, t, k, v, "")
           target == Registry_find(Here, t)
       IN IF target # None
          THEN IF target[1] \in Clients
               THEN \E id \in gen_random_key(call_record[target[1]]) :
                    \E w \in {Entity_call(Here, target[1], c, r, k, v, id)} :
                       Commit(c, req, IF w.res.ok THEN None ELSE Some(errtoresp(w.res)), w)
               ELSE \E w \in {Entity_call(Here, target[1], c, r, k, v, 0)} :
                       Commit(c, req, Some(errtoresp(w.res)), w)
          ELSE Commit(c, req, Some(TargetNotFound), Here)

HandleRESPONSE(c, r, v) ==
    /\ status[c] = "open"
    /\ Commit(c, Request(c, "RESPONSE", r, "", "", v, ""), None,
              recv_call_resp(Here, c, r, SuccessWithData(v)))

HandleEXCEPTION(c, r, v) ==
    /\ status[c] = "open"
    /\ Commit(c, Request(c, "EXCEPTION", r, "", "", v, ""), None,
              recv_call_resp(Here, c, r, Failed(v)))

HandlePING(c, r, v) ==
    /\ status[c] = "open"
    /\ Commit(c, Request(c, "PING", r, "", "", v, ""), Some(SuccessWithData(v)), Here)

\* NOTIFY that publishes on the event broker instead of the notify broker
HandleNOTIFY_event_broker(c, r, k, v) ==
    /\ status[c] = "open"
    /\ LET req == Request(c, "NOTIFY", r, "", k, v, "")
       IN IF name[c] # None
          THEN \E w \in {Broker_send(Here, "event", EventKey(name[c][1], k), Some(v))} :
                  Commit(c, req, Some(Success), w)
          ELSE Commit(c, req, Some(Failed(Utf8("no name"))), Here)

HandleNOTIFY(c, r, k, v) ==
    /\ status[c] = "open"
    /\ LET req == Request(c, "NOTIFY", r, "", k, v, "")
       IN IF name[c] # None
          THEN \E w \in {Broker_send(Here, "notify", EventKey(name[c][1], k), Some(v))} :
                  Commit(c, req, Some(Success), w)
          ELSE Commit(c, req, Some(Failed(Utf8("no name"))), Here)

\* the default arm that answers and goes on reading
HandleUnknown_continues(c, r, cmd) ==
    /\ status[c] = "open"
    /\ Commit(c, Request(c, cmd, r, "", "", <<>>, ""),
              Some(Failed(Utf8("Unknown command"))), Here)

\* the default arm: any other command token
HandleUnknown(c, r, cmd) ==
    /\ status[c] = "open"
    /\ CommitAndStop(c, Request(c, cmd, r, "", "", <<>>, ""),
                     Some(Failed(Utf8("Unknown command"))), Here)

\* the arms that decode their payload return the codec's error through `?`
\* when the payload is too short: nothing is written
DecodeError == [tag |-> "DecodeError", data |-> <<>>]

DecodingCommands ==
    {"SET PRIVATE", "GET PRIVATE", "DEL PRIVATE", "ACL", "SET", "GET", "DEL", "KEYS",
     "NOTIFY", "LISTEN", "OBSERVE", "CALL"}

HandleMalformed(c, r, cmd) ==
    /\ status[c] = "open"
    /\ cmd \in DecodingCommands
    /\ \E w2 \in {Drop(Here, c)} :
       /\ status' = [status EXCEPT ![c] = "closed"]
       /\ name' = w2.name
       /\ kvstore' = w2.kvstore
       /\ pending_call' = w2.pending_call
       /\ call_record' = w2.call_record
       /\ notify_subscribe' = w2.notify_subscribe
       /\ event_subscribe' = w2.event_subscribe
       /\ outstanding' = w2.outstanding
       /\ emitted' = NoFrames
       /\ written' = <<>>
       /\ published' = <<>>
       /\ last' = [req |-> Request(c, cmd, r, "", "", <<>>, ""), res |-> DecodeError]
       /\ UNCHANGED <<writerOk, forward, reverse, event_map, notify_map, shared_data>>
       /\ UNCHANGED sidevars

\* ------------------------------------------------ Broker::send, await by await
\* sends that ever begin
MaxSends == 2

\* the variables of the gateway a step of a send leaves alone
FanFrame ==
    UNCHANGED <<status, writerOk, forward, reverse, name, kvstore, pending_call,
                call_record, notify_subscribe, event_subscribe, event_map, notify_map,
                shared_data, outstanding, codec, writervars, lockvars, instvars>>

FanStep(what, t) ==
    last' = [req |-> Request(0, what, sending[t].n, sending[t].broker, "", <<>>, ""),
             res |-> NoReply]

AltList(b, key) == IF key \in DOMAIN alt_map[b] THEN alt_map[b][key] ELSE <<>>

\* a receiver that no list holds and that was never dropped from one: its Box
\* has not been handed to a broker
Unboxed(a) ==
    /\ a \notin refused
    /\ \A b \in Brokers : \A k \in DOMAIN alt_map[b] :
          \A i \in 1..Len(alt_map[b][k]) : alt_map[b][k][i] # a

\* alternative_register: the receiver goes to the end of the key's list
AlternativeRegister(b, a, key) ==
    /\ Unboxed(a)
    /\ alt_guard[b] = 0
    /\ alt_map' = [alt_map EXCEPT ![b] = Put(@, key, Append(AltList(b, key), a))]
    /\ last' = [req |-> Request(0, "alternative_register", a, b, "", <<>>, ""),
                res |-> NoReply]
    /\ emitted' = NoFrames
    /\ written' = <<>>
    /\ published' = <<>>
    /\ FanFrame
    /\ UNCHANGED <<map_guard, alt_guard, sending, begun, refused, delivered>>

\* send takes the lock of the map and looks the key up; the payload of the
\* n-th send is the byte n
SendLockMap(t, b, key) ==
    /\ sending[t].pc = "idle"
    /\ begun < MaxSends
    /\ map_guard[b] = 0
    /\ map_guard' = [map_guard EXCEPT ![b] = t]
    /\ begun' = begun + 1
    /\ sending' = [sending EXCEPT ![t] =
                      [Idle EXCEPT !.pc = "weak", !.broker = b, !.key = key,
                                   !.data = Some(<<begun + 1>>), !.n = begun + 1,
                                   !.todo = IF key \in DOMAIN BrokerMap(Here, b)
                                            THEN BrokerMap(Here, b)[key] ELSE {}]]
    /\ published' = <<[broker |-> b, key |-> key, data |-> Some(<<begun + 1>>)]>>
    /\ emitted' = NoFrames
    /\ written' = <<>>
    /\ last' = [req |-> Request(0, "send", begun + 1, b, "", <<>>, ""), res |-> NoReply]
    /\ FanFrame
    /\ UNCHANGED <<alt_map, alt_guard, refused, delivered>>

\* the iterator of the weak set yields its next entry: an expired one is
\* skipped, a live one is awaited
SendWeak(t, c) ==
    /\ sending[t].pc = "weak"
    /\ c \in sending[t].todo
    /\ sending' = [sending EXCEPT ![t].todo = @ \ {c}]
    /\ emitted' = IF Alive(c)
                  THEN receive(Here, sending[t].broker, c, sending[t].key,
                               sending[t].data).out
                  ELSE NoFrames
    /\ written' = IF Alive(c)
                  THEN receive(Here, sending[t].broker, c, sending[t].key,
                               sending[t].data).log
                  ELSE <<>>
    /\ delivered' = IF Alive(c)
                    THEN [delivered EXCEPT !.weak[c] = Append(@, sending[t].n)]
                    ELSE delivered
    /\ published' = <<>>
    /\ FanStep("receive", t)
    /\ FanFrame
    /\ UNCHANGED <<alt_map, map_guard, alt_guard, begun, refused>>

\* drop(map) that leaves the guard held
SendDropMap_keeps_guard(t) ==
    /\ sending[t].pc = "weak"
    /\ sending[t].todo = {}
    /\ sending' = [sending EXCEPT ![t].pc = "dropped"]
    /\ emitted' = NoFrames
    /\ written' = <<>>
    /\ published' = <<>>
    /\ FanStep("drop", t)
    /\ FanFrame
    /\ UNCHANGED <<alt_map, map_guard, alt_guard, begun, refused, delivered>>

\* drop(map): every weak subscriber was awaited
SendDropMap(t) ==
    /\ sending[t].pc = "weak"
    /\ sending[t].todo = {}
    /\ map_guard' = [map_guard EXCEPT ![sending[t].broker] = 0]
    /\ sending' = [sending EXCEPT ![t].pc = "dropped"]
    /\ emitted' = NoFrames
    /\ written' = <<>>
    /\ published' = <<>>
    /\ FanStep("drop", t)
    /\ FanFrame
    /\ UNCHANGED <<alt_map, alt_guard, begun, refused, delivered>>

\* send takes the lock of alt_map
SendLockAlt(t) ==
    /\ sending[t].pc = "dropped"
    /\ alt_guard[sending[t].broker] = 0
    /\ alt_guard' = [alt_guard EXCEPT ![sending[t].broker] = t]
    /\ sending' = [sending EXCEPT ![t].pc = "alt", ![t].idx = 1]
    /\ emitted' = NoFrames
    /\ written' = <<>>
    /\ published' = <<>>
    /\ FanStep("lock alt", t)
    /\ FanFrame
    /\ UNCHANGED <<alt_map, map_guard, begun, refused, delivered>>

\* the next receiver of the list is awaited; what it returns is its own affair
SendAlt(t, ok) ==
    /\ sending[t].pc = "alt"
    /\ sending[t].idx <= Len(AltList(sending[t].broker, sending[t].key))
    /\ \E a \in {AltList(sending[t].broker, sending[t].key)[sending[t].idx]} :
          /\ delivered' = [delivered EXCEPT !.alt[a] = Append(@, sending[t].n)]
          /\ refused' = IF ok THEN refused ELSE refused \cup {a}
    /\ sending' = [sending EXCEPT ![t].idx = @ + 1,
                                  ![t].deleted = IF ok THEN @
                                                 ELSE Append(@, sending[t].idx - 1)]
    /\ emitted' = NoFrames
    /\ written' = <<>>
    /\ published' = <<>>
    /\ FanStep("alt receive", t)
    /\ FanFrame
    /\ UNCHANGED <<alt_map, map_guard, alt_guard, begun>>

\* Vec::remove(idx), idx counted from 0
VecRemove(list, idx) ==
    [i \in 1..(Len(list) - 1) |-> IF i <= idx THEN list[i] ELSE list[i + 1]]

\* the removals made from the first collected index to the last
RECURSIVE Compact_forward(_, _)
Compact_forward(list, deleted) ==
    IF deleted = <<>> THEN list
    ELSE IF Head(deleted) >= Len(list) THEN Compact_forward(list, Tail(deleted))
    ELSE Compact_forward(VecRemove(list, Head(deleted)), Tail(deleted))

\* for idx in deleted.iter().rev() { list.remove(*idx) }
RECURSIVE Compact(_, _)
Compact(list, deleted) ==
    IF deleted = <<>> THEN list
    ELSE Compact(VecRemove(list, deleted[Len(deleted)]),
                 SubSeq(deleted, 1, Len(deleted) - 1))

\* the list was walked: the receivers that returned false are removed and the
\* guard of alt_map goes out of scope
SendFinish(t) ==
    /\ sending[t].pc = "alt"
    /\ sending[t].idx > Len(AltList(sending[t].broker, sending[t].key))
    /\ alt_map' = IF sending[t].key \in DOMAIN alt_map[sending[t].broker]
                  THEN [alt_map EXCEPT ![sending[t].broker][sending[t].key] =
                           Compact(@, sending[t].deleted)]
                  ELSE alt_map
    /\ alt_guard' = [alt_guard EXCEPT ![sending[t].broker] = 0]
    /\ sending' = [sending EXCEPT ![t] = Idle]
    /\ emitted' = NoFrames
    /\ written' = <<>>
    /\ published' = <<>>
    /\ FanStep("finish", t)
    /\ FanFrame
    /\ UNCHANGED <<map_guard, begun, refused, delivered>>

\* ------------------------------------------------------- encoder and decoder
\* frames one stream carries before it is read out
MaxFrames == 2

\* the values written: request ids with four different bytes and with every bit
\* set, a payload whose length needs two varuint bytes, and the lengths at which
\* a varuint grows by a byte
CodecReqIds == {Num(0, 1), Num(258, 772), U32Max}
CodecTexts == {"PING", "GET"}
LongPayload == [i \in 1..130 |-> i]
CodecPayloads == {<<>>, <<7>>, LongPayload}
CodecRequests ==
    [reqid : CodecReqIds, command : CodecTexts, payload : CodecPayloads]
CodecResponsePayloads ==
    {Success, SuccessWithData(<<>>), SuccessWithData(LongPayload), Failed(<<7>>)}
CodecResponses ==
    [kind : ResponseKinds, reqid : CodecReqIds \ {Num(0, 1)},
     payload : CodecResponsePayloads]
CodecVaruints ==
    {Num(0, 0), Num(0, 1), Num(0, 127), Num(0, 128), Num(0, 16383), Num(0, 16384),
     Num(1, 0), U32Max}

\* the value a decoder builds for a value written: a ShortText is its bytes
Built(type, x) ==
    IF type = "Request"
    THEN [reqid |-> x.reqid, command |-> Utf8(x.command), payload |-> x.payload]
    ELSE x

Encode(type, order, x) ==
    CASE type = "Request" -> EncodeRequest(order, x)
      [] type = "Response" -> EncodeResponse(order, x)
      [] type = "varuint" -> encode_varuint(x)

\* Encoder<T>::encode on the stream's writer
Write(type, x) ==
    /\ codec.type = type
    /\ Len(codec.sent) < MaxFrames
    /\ codec' = [codec EXCEPT !.sent = Append(@, x),
                              !.wire = @ \o Encode(type, codec.order, x)]
    /\ UNCHANGED <<gatewayvars, brokervars, writervars, lockvars, instvars>>

\* Decoder<T>::decode on the stream's reader, once bytes have arrived
Read(type, r) ==
    /\ codec.type = type
    /\ codec.wire # <<>>
    /\ codec' = [codec EXCEPT !.got = Append(@, [ok |-> r.ok, val |-> r.val]),
                              !.wire = r.rest]
    /\ UNCHANGED <<gatewayvars, brokervars, writervars, lockvars, instvars>>

WriteRequest(x) == Write("Request", x)
ReadRequest == Read("Request", DecodeRequest(codec.order, codec.wire))
WriteResponse(x) == Write("Response", x)
ReadResponse == Read("Response", DecodeResponse(codec.order, codec.wire))
WriteVaruint(n) == Write("varuint", n)
ReadVaruint == Read("varuint", decode_varuint(codec.wire))

\* ----------------------------------------- ExternalEntity::send, write by write
\* the byte order of the host the gateway runs on
HostOrder == "little"

\* a request id of the gateway as a u32
U32(n) == Num(n \div Limb, n % Limb)
OnWire(frame) == [frame EXCEPT !.reqid = U32(@)]

\* one write call per byte of a varuint
VaruintWrites(v) == [i \in 1..Len(encode_varuint(v)) |-> <<encode_varuint(v)[i]>>]

\* the write calls Encoder<Response>::encode makes on the writer, in order
ResponseWrites(order, data) ==
    <<encode_reqid(order, data.reqid), EncodeResponseKind(data.kind)>>
    \o CASE data.payload.tag = "Success" -> << <<0>> >>
         [] data.payload.tag = "SuccessWithData" ->
               << <<1>> >> \o VaruintWrites(Usize(Len(data.payload.data)))
                  \o <<data.payload.data>>
         [] data.payload.tag = "Failed" ->
               << <<255>> >> \o VaruintWrites(Usize(Len(data.payload.data)))
                  \o <<data.payload.data>>

\* the frames tasks write to one connection: the RESP of its own request, the
\* NEXT of a publication, the CALL of another connection's call, the RESP of a
\* call's reply
WireFrames ==
    {new_resp(1, Success),
     new_next(2, SuccessWithData(<<7>>)),
     new_call(0, SuccessWithData(encode_short_text("x") \o <<7>>)),
     new_resp(2, Failed(Utf8("not found")))}

WriterFrame == UNCHANGED <<gatewayvars, codec, brokervars, lockvars, instvars>>

\* send that goes on without the writer's lock being free
WriterLock_no_guard(t, c, resp) ==
    /\ writing[t] = NotWriting
    /\ Len(framed[c]) < MaxFrames
    /\ writer_guard' = [writer_guard EXCEPT ![c] = t]
    /\ writing' = [writing EXCEPT ![t] =
                      [conn |-> c, parts |-> ResponseWrites(HostOrder, OnWire(resp))]]
    /\ framed' = [framed EXCEPT ![c] = Append(@, resp)]
    /\ UNCHANGED wire
    /\ WriterFrame

\* self.writer.lock().await
WriterLock(t, c, resp) ==
    /\ writing[t] = NotWriting
    /\ Len(framed[c]) < MaxFrames
    /\ writer_guard[c] = 0
    /\ writer_guard' = [writer_guard EXCEPT ![c] = t]
    /\ writing' = [writing EXCEPT ![t] =
                      [conn |-> c, parts |-> ResponseWrites(HostOrder, OnWire(resp))]]
    /\ framed' = [framed EXCEPT ![c] = Append(@, resp)]
    /\ UNCHANGED wire
    /\ WriterFrame

\* the next write call of guard.encode(resp)
WriterWrite(t) ==
    /\ writing[t].parts # <<>>
    /\ wire' = [wire EXCEPT ![writing[t].conn] = @ \o Head(writing[t].parts)]
    /\ writing' = [writing EXCEPT ![t].parts = Tail(@)]
    /\ UNCHANGED <<writer_guard, framed>>
    /\ WriterFrame

\* guard.flush(), and the guard goes out of scope
WriterFlush(t) ==
    /\ writing[t] # NotWriting
    /\ writing[t].parts = <<>>
    /\ writer_guard' = [writer_guard EXCEPT ![writing[t].conn] = 0]
    /\ writing' = [writing EXCEPT ![t] = NotWriting]
    /\ UNCHANGED <<wire, framed>>
    /\ WriterFrame

\* ------------------------------- get_notify_broker / get_event_broker, racing
\* The getters keep their broker in a static mut Option and fill it with
\* get_or_insert_with, with no synchronisation, on the first call of any task of
\* the multi-threaded executor. Two tasks that make their first call at the
\* same time race on the static: each may read None and each then writes a new
\* Broker, the later write replacing the broker of the earlier one.

\* task c, inside get_or_insert_with, reads the static of broker b as None
Glimpse(c, b) ==
    /\ status[c] = "open"
    /\ fresh[b]
    /\ c \notin stale[b]
    /\ stale' = [stale EXCEPT ![b] = @ \cup {c}]
    /\ UNCHANGED <<gatewayvars, codec, brokervars, writervars, lockvars, fresh>>

\* task c, having read None, writes Some(Broker::new()): a broker written
\* before is dropped with the sets its map held
Install(c, b) ==
    /\ c \in stale[b]
    /\ stale' = [stale EXCEPT ![b] = @ \ {c}]
    /\ fresh' = [fresh EXCEPT ![b] = FALSE]
    /\ event_map' = IF b = "event" THEN EmptyMap ELSE event_map
    /\ notify_map' = IF b = "notify" THEN EmptyMap ELSE notify_map
    /\ alt_map' = [alt_map EXCEPT ![b] = EmptyMap]
    /\ last' = [req |-> Request(c, "install", 0, b, "", <<>>, ""), res |-> NoReply]
    /\ emitted' = NoFrames
    /\ written' = <<>>
    /\ published' = <<>>
    /\ UNCHANGED <<status, writerOk, forward, reverse, name, kvstore, pending_call,
                   call_record, notify_subscribe, event_subscribe, shared_data,
                   outstanding>>
    /\ UNCHANGED <<codec, map_guard, alt_guard, sending, begun, refused, delivered,
                   writervars, lockvars>>

\* task c's call of the getter of broker b finds Some and returns it
Ready(c, b) == ~fresh[b] /\ c \notin stale[b]

\* ------------------------------------------------- the asynchronous mutexes
\* Every handler is read as the sequence of lock and unlock operations it makes
\* on the async_std mutexes, in the order of its awaits; a guard bound by let
\* lives to the end of its block, the guard of `if let Some(name) =
\* self.name.lock().await.to_owned()` to the end of the if let. A mutex is
\* not reentrant: a task that locks one it holds waits for itself.

\* Mutex fields: of the registry, the bucket and the brokers (of = 0) and of
\* the entity of each connection
Lock(kind, of) == [kind |-> kind, of |-> of]
MapLock(b) == Lock(IF b = "event" THEN "event_map" ELSE "notify_map", 0)
AltLock(b) == Lock(IF b = "event" THEN "event_alt" ELSE "notify_alt", 0)
SubscribeLock(b, e) == Lock(IF b = "event" THEN "event_subscribe" ELSE "notify_subscribe", e)

\* let guard = l.lock().await; body; the guard dropped at the end
Hold(l, body) == <<<<"lock", l>>>> \o body \o <<<<"unlock", l>>>>

\* ExternalEntity::send
SendLocks(e) == Hold(Lock("writer", e), <<>>)

\* on_event / on_notify of a receiver holding the subscription
ReceiveLocks(b, e) == Hold(SubscribeLock(b, e), SendLocks(e))

RECURSIVE ReceiveAll(_, _)
ReceiveAll(b, subs) ==
    IF subs = <<>> THEN <<>> ELSE ReceiveLocks(b, subs[1]) \o ReceiveAll(b, Tail(subs))

\* Broker::send with the weak set yielding subs in this order
BrokerSendLocks(b, subs) == Hold(MapLock(b), ReceiveAll(b, subs)) \o Hold(AltLock(b), <<>>)

\* the orders in which a weak set may yield live receivers
Receivers == UNION {Orderings(S) : S \in SUBSET Clients}

\* Broker::register, ExternalEntity::register_event / register_notify
RegisterLocks(b, e) == Hold(MapLock(b), <<>>) \o Hold(SubscribeLock(b, e), <<>>)

\* Broker::cleanup
CleanupLocks(b) == Hold(MapLock(b), <<>>)

\* ExternalEntity::get, keys, get_private, set_acl, and set / del refused or
\* not found
KvstoreLocks(e) == Hold(Lock("kvstore", e), <<>>)

\* ExternalEntity::set, del, set_private, del_private of an entity whose name
\* field is none, or is some and published to subs
PublishLocks(e, named, subs) ==
    Hold(Lock("kvstore", e),
         Hold(Lock("name", e), IF named THEN BrokerSendLocks("event", subs) ELSE <<>>))

\* ExternalEntity::get_name, update_name
NameLocks(e) == Hold(Lock("name", e), <<>>)

\* Registry::find, get, keys, and set / del refused
RegistryLocks == Hold(Lock("registry", 0), <<>>)

\* Registry::set binding the name to sender
RegistrySetLocks(sender, subs) ==
    Hold(Lock("registry", 0), NameLocks(sender) \o BrokerSendLocks("event", subs))

\* Registry::del releasing the name
RegistryDelLocks(subs) == Hold(Lock("registry", 0), BrokerSendLocks("event", subs))

\* SharedStorage::get, keys and set / del
SharedLocks(wr, subs) ==
    Hold(Lock("shared", 0), IF wr THEN BrokerSendLocks("event", subs) ELSE <<>>)

\* ExternalEntity::call on callee e for caller a, the write of the CALL frame
\* succeeding or failing
CallLocks(e, a, ok) ==
    Hold(Lock("call_record", e),
         Hold(Lock("pending_call", a), <<>>)
            \o SendLocks(e)
            \o (IF ok THEN <<>> ELSE Hold(Lock("pending_call", a), <<>>)))

\* recv_call_resp that takes the two guards in the opposite order
RecvCallRespLocks_pending_first(e, a, known) ==
    Hold(Lock("pending_call", a),
         Hold(Lock("call_record", e), IF known THEN SendLocks(a) ELSE <<>>))

\* ExternalEntity::recv_call_resp on responder e whose record names caller a,
\* with call_resp finding the responder id in the caller's table or not
RecvCallRespLocks(e, a, known) ==
    Hold(Lock("call_record", e),
         Hold(Lock("pending_call", a), IF known THEN SendLocks(a) ELSE <<>>))

\* the operations of one pass of handle_loop of connection c, and of the two
\* sweeps handle_client spawns
HandlerLocks(c) ==
    {SendLocks(c)}
    \cup {KvstoreLocks(c) \o SendLocks(c)}
    \cup {PublishLocks(c, FALSE, <<>>) \o SendLocks(c)}
    \cup {PublishLocks(c, TRUE, subs) \o SendLocks(c) : subs \in Receivers}
    \cup {RegistryLocks \o RegistryLocks \o SendLocks(c)}
    \cup {RegistryLocks \o RegistrySetLocks(c, subs) \o SendLocks(c) : subs \in Receivers}
    \cup {RegistryLocks \o RegistryDelLocks(subs) \o SendLocks(c) : subs \in Receivers}
    \cup {RegistryLocks \o SharedLocks(wr, subs) \o SendLocks(c) :
             wr \in BOOLEAN, subs \in Receivers}
    \cup {RegistryLocks \o KvstoreLocks(e) \o SendLocks(c) : e \in Clients}
    \cup {RegistryLocks \o PublishLocks(e, named, subs) \o SendLocks(c) :
             e \in Clients, named \in BOOLEAN, subs \in Receivers}
    \cup {NameLocks(c) \o SendLocks(c)}
    \cup {NameLocks(c) \o BrokerSendLocks("notify", subs) \o SendLocks(c) :
             subs \in Receivers}
    \cup {RegisterLocks(b, c) \o SendLocks(c) : b \in Brokers}
    \cup {RegistryLocks \o CallLocks(e, c, TRUE) : e \in Clients}
    \cup {RegistryLocks \o CallLocks(e, c, FALSE) \o SendLocks(c) : e \in Clients}
    \cup {Hold(Lock("call_record", c), <<>>)}
    \cup {RecvCallRespLocks(c, a, known) : a \in Clients, known \in BOOLEAN}
    \cup {CleanupLocks(b) : b \in Brokers}

LockFrame == UNCHANGED <<gatewayvars, codec, brokervars, writervars, instvars>>

\* task t starts a pass with the operations p
Begin(t, p) ==
    /\ prog[t] = <<>>
    /\ prog' = [prog EXCEPT ![t] = p]
    /\ UNCHANGED held
    /\ LockFrame

\* task t is at a lock().await
Wants(t, l) == prog[t] # <<>> /\ prog[t][1] = <<"lock", l>>

Holder(l) == {u \in Clients : l \in held[u]}

\* lock().await resolves once no task holds the mutex
Acquire(t) ==
    /\ prog[t] # <<>>
    /\ prog[t][1][1] = "lock"
    /\ Holder(prog[t][1][2]) = {}
    /\ held' = [held EXCEPT ![t] = @ \cup {prog[t][1][2]}]
    /\ prog' = [prog EXCEPT ![t] = Tail(@)]
    /\ LockFrame

\* a guard is dropped
Release(t) ==
    /\ prog[t] # <<>>
    /\ prog[t][1][1] = "unlock"
    /\ held' = [held EXCEPT ![t] = @ \ {prog[t][1][2]}]
    /\ prog' = [prog EXCEPT ![t] = Tail(@)]
    /\ LockFrame

\* ------------------------------------------------------------ specifications
RegNames == Names \cup {"registry", "shared"}

\* connections that come and go and bind and release names
NextReg ==
    \/ \E c \in Clients : Connect(c)
    \/ \E c \in Clients : CloseConnection(c)
    \/ \E c \in Clients, r \in ReqIds, n \in RegNames, v \in Payloads :
          HandleSET(c, r, "registry", n, v)
    \/ \E c \in Clients, r \in ReqIds, n \in RegNames : HandleDEL(c, r, "registry", n)

SpecReg == Init /\ [][NextReg]_vars

\* connections that bind and release names and observe the registry's events
NextObs ==
    \/ \E c \in Clients : Connect(c)
    \/ \E c \in Clients : CloseConnection(c)
    \/ \E c \in Clients, n \in Names, v \in Payloads :
          HandleSET(c, MaxReqId, "registry", n, v)
    \/ \E c \in Clients, n \in Names : HandleDEL(c, MaxReqId, "registry", n)
    \/ \E c \in Clients, r \in ReqIds, n \in Names : HandleOBSERVE(c, r, "registry", n)
    \/ Cleanup("event")

SpecObs == Init /\ [][NextObs]_vars

\* connections that bind names and go away, and connections that look names up
NextGc ==
    \/ \E c \in Clients : Connect(c)
    \/ \E c \in Clients : CloseConnection(c)
    \/ \E c \in Clients, n \in Names, v \in Payloads :
          HandleSET(c, MaxReqId, "registry", n, v)
    \/ \E c \in Clients, t \in Names \cup {"registry"}, n \in Names :
          HandleGET(c, MaxReqId, t, n)
    \/ \E c \in Clients : HandleKEYS(c, MaxReqId, "registry")

SpecGc == Init /\ [][NextGc]_vars

\* named connections that call one another and answer the calls they receive
NextCall ==
    \/ \E c \in Clients : Connect(c)
    \/ \E c \in Clients : CloseConnection(c)
    \/ \E c \in Clients, n \in Names : HandleSET(c, MaxReqId, "registry", n, <<>>)
    \/ \E c \in Clients, r \in ReqIds, t \in Names, k \in Keys :
          HandleCALL(c, r, t, k, <<7>>)
    \/ \E c \in Clients, r \in Rids, v \in Payloads : HandleRESPONSE(c, r, v)

SpecCall == Init /\ [][NextCall]_vars

AccessTags == {"private", "protected", "public"}

\* connections that manage their own keys, one of them under the name the
\* others read and write its keys by
NextKv ==
    \/ \E c \in Clients : Connect(c)
    \/ \E c \in Clients : HandleSET(c, MaxReqId, "registry", "alice", <<>>)
    \/ \E c \in Clients, k \in Keys, v \in Payloads : HandleSET_PRIVATE(c, MaxReqId, k, v)
    \/ \E c \in Clients, k \in Keys : HandleDEL_PRIVATE(c, MaxReqId, k)
    \/ \E c \in Clients, k \in Keys, acl \in AccessTags : HandleACL(c, MaxReqId, k, acl)
    \/ \E c \in Clients, k \in Keys : HandleGET(c, MaxReqId, "alice", k)
    \/ \E c \in Clients, k \in Keys, v \in Payloads : HandleSET(c, MaxReqId, "alice", k, v)
    \/ \E c \in Clients, k \in Keys : HandleDEL(c, MaxReqId, "alice", k)

SpecKv == Init /\ [][NextKv]_vars

AclKeys == {"x", "y"}

\* the connection that holds the name stores values under two keys and retags them
NextAcl ==
    \/ \E c \in Clients : Connect(c)
    \/ \E c \in Clients : HandleSET(c, MaxReqId, "registry", "alice", <<>>)
    \/ \E c \in Clients, k \in AclKeys :
          name[c] # None /\ HandleSET_PRIVATE(c, MaxReqId, k, <<7>>)
    \/ \E c \in Clients, k \in AclKeys, acl \in AccessTags :
          name[c] # None /\ HandleACL(c, MaxReqId, k, acl)

SpecAcl == Init /\ [][NextAcl]_vars

\* connections, named or not, that send notifications others listen for
NextNotify ==
    \/ \E c \in Clients : Connect(c)
    \/ \E c \in Clients : HandleSET(c, MaxReqId, "registry", "alice", <<>>)
    \/ \E c \in Clients, r \in ReqIds, k \in Keys : HandleLISTEN(c, r, "alice", k)
    \/ \E c \in Clients, k \in Keys, v \in Payloads : HandleNOTIFY(c, MaxReqId, k, v)

SpecNotify == Init /\ [][NextNotify]_vars

\* command tokens no arm of handle_loop matches
UnknownCommands == {"HELLO"}

\* connections that register, ping, read each other and send an unknown command
NextUnknown ==
    \/ \E c \in Clients : Connect(c)
    \/ \E c \in Clients, n \in Names : HandleSET(c, MaxReqId, "registry", n, <<>>)
    \/ \E c \in Clients, r \in ReqIds, v \in Payloads : HandlePING(c, r, v)
    \/ \E c \in Clients, t \in Names, k \in Keys : HandleGET(c, MaxReqId, t, k)
    \/ \E c \in Clients, r \in ReqIds, cmd \in UnknownCommands : HandleUnknown(c, r, cmd)

SpecUnknown == Init /\ [][NextUnknown]_vars

\* connections that call the named one while some peer has stopped reading
NextCallFail ==
    \/ \E c \in Clients : Connect(c)
    \/ \E c \in Clients : HandleSET(c, MaxReqId, "registry", "alice", <<>>)
    \/ \E c \in Clients : BreakWriter(c)
    \/ \E c \in Clients, k \in Keys : HandleCALL(c, MaxReqId, "alice", k, <<7>>)

SpecCallFail == Init /\ [][NextCallFail]_vars

\* named connections that call one another and answer with RESPONSE or EXCEPTION
NextReply ==
    \/ \E c \in Clients : Connect(c)
    \/ \E c \in Clients, n \in Names : HandleSET(c, MaxReqId, "registry", n, <<>>)
    \/ \E c \in Clients, r \in ReqIds, t \in Names, k \in Keys :
          HandleCALL(c, r, t, k, <<7>>)
    \/ \E c \in Clients, r \in Rids : HandleRESPONSE(c, r, <<7>>)
    \/ \E c \in Clients, r \in Rids : HandleEXCEPTION(c, r, <<7>>)

SpecReply == Init /\ [][NextReply]_vars

\* Every arm of handle_loop, each with one choice of well-formed arguments. The
\* connection that holds the name manages its keys; the connections without a
\* name subscribe and call.
NextGateway ==
    \/ \E c \in Clients : Connect(c)
    \/ \E c \in Clients : CloseConnection(c)
    \/ \E c \in Clients, r \in ReqIds : HandlePING(c, r, <<7>>)
    \/ \E c \in Clients : name[c] # None /\ HandleSET_PRIVATE(c, MaxReqId, "x", <<7>>)
    \/ \E c \in Clients : HandleGET_PRIVATE(c, MaxReqId, "x")
    \/ \E c \in Clients : name[c] # None /\ HandleDEL_PRIVATE(c, MaxReqId, "x")
    \/ \E c \in Clients : name[c] # None /\ HandleACL(c, MaxReqId, "x", "protected")
    \/ \E c \in Clients : HandleSET(c, MaxReqId, "registry", "alice", <<7>>)
    \/ \E c \in Clients, t \in {"alice", "shared"} : HandleSET(c, MaxReqId, t, "x", <<7>>)
    \/ \E c \in Clients, t \in {"alice", "shared"} : HandleGET(c, MaxReqId, t, "x")
    \/ \E c \in Clients, t \in {"alice", "shared"} : HandleDEL(c, MaxReqId, t, "x")
    \/ \E c \in Clients, t \in {"alice", "shared"} : HandleKEYS(c, MaxReqId, t)
    \/ \E c \in Clients : HandleNOTIFY(c, MaxReqId, "x", <<7>>)
    \/ \E c \in Clients : name[c] = None /\ HandleLISTEN(c, MaxReqId, "alice", "x")
    \/ \E c \in Clients : name[c] = None /\ HandleOBSERVE(c, MaxReqId, "alice", "x")
    \/ \E c \in Clients : name[c] = None /\ HandleCALL(c, MaxReqId, "alice", "x", <<7>>)
    \/ \E c \in Clients, r \in Rids : name[c] # None /\ HandleRESPONSE(c, r, <<7>>)
    \/ \E c \in Clients, r \in Rids : name[c] # None /\ HandleEXCEPTION(c, r, <<7>>)
    \/ \E c \in Clients, cmd \in UnknownCommands : HandleUnknown(c, MaxReqId, cmd)
    \/ \E c \in Clients : HandleMalformed(c, MaxReqId, "GET")

SpecGateway == Init /\ [][NextGateway]_vars

\* the request id a client gives its next subscription to a key: one more than
\* the id of the subscription it replaces
NextSubId(subs, ek) == IF ek \in DOMAIN subs THEN subs[ek] + 1 ELSE 1

\* connections that subscribe again and again to the keys of the connection
\* named alice, each time under a fresh request id, while alice publishes
NextResub ==
    \/ \E c \in Clients : Connect(c)
    \/ \E c \in Clients : HandleSET(c, MaxReqId, "registry", "alice", <<>>)
    \/ \E c \in Clients, r \in ReqIds, k \in Keys :
          /\ name[c] = None
          /\ r = NextSubId(notify_subscribe[c], EventKey("alice", k))
          /\ HandleLISTEN(c, r, "alice", k)
    \/ \E c \in Clients, r \in ReqIds, k \in Keys :
          /\ name[c] = None
          /\ r = NextSubId(event_subscribe[c], EventKey("alice", k))
          /\ HandleOBSERVE(c, r, "alice", k)
    \/ \E c \in Clients, k \in Keys : HandleNOTIFY(c, MaxReqId, k, <<7>>)
    \/ \E c \in Clients, k \in Keys :
          name[c] # None /\ HandleSET_PRIVATE(c, MaxReqId, k, <<7>>)

SpecResub == Init /\ [][NextResub]_vars

\* connections that store, read and delete keys of the shared bucket, and
\* observe them
NextShared ==
    \/ \E c \in Clients : Connect(c)
    \/ \E c \in Clients, k \in Keys, v \in Payloads : HandleSET(c, MaxReqId, "shared", k, v)
    \/ \E c \in Clients, k \in Keys : HandleGET(c, MaxReqId, "shared", k)
    \/ \E c \in Clients, k \in Keys : HandleDEL(c, MaxReqId, "shared", k)
    \/ \E c \in Clients, k \in Keys : HandleOBSERVE(c, MaxReqId, "shared", k)

SpecShared == Init /\ [][NextShared]_vars

\* a stream of one type of value on a host of either byte order
InitCodec ==
    /\ InitGateway
    /\ InitBroker
    /\ InitWriter
    /\ InitLocks
    /\ InitInstance
    /\ \E type \in {"Request", "Response", "varuint"}, order \in ByteOrders :
          codec = [NoStream EXCEPT !.type = type, !.order = order]

NextCodec ==
    \/ \E x \in CodecRequests : WriteRequest(x)
    \/ ReadRequest
    \/ \E x \in CodecResponses : WriteResponse(x)
    \/ ReadResponse
    \/ \E n \in CodecVaruints : WriteVaruint(n)
    \/ ReadVaruint

SpecCodec == InitCodec /\ [][NextCodec]_vars

\* the key the senders publish under
FanKey == EventKey("shared", "x")

\* two tasks that publish on the event broker while connections observe the
\* key and one receiver is boxed into the alternative list
NextFan ==
    \/ \E c \in Clients : Connect(c)
    \/ \E c \in Clients :
          map_guard["event"] = 0 /\ HandleOBSERVE(c, MaxReqId, "shared", "x")
    \/ AlternativeRegister("event", 1, FanKey)
    \/ \E t \in Senders : SendLockMap(t, "event", FanKey)
    \/ \E t \in Senders, c \in Clients : SendWeak(t, c)
    \/ \E t \in Senders : SendDropMap(t)
    \/ \E t \in Senders : SendLockAlt(t)
    \/ \E t \in Senders : SendAlt(t, TRUE)
    \/ \E t \in Senders : SendFinish(t)

SpecFan == Init /\ [][NextFan]_vars

\* one task that publishes again and again to the receivers of the alternative
\* list, boxed in the order of their numbers, each of which may refuse
NextAlt ==
    \/ \E a \in AltIds :
          (\A x \in AltIds : x < a => ~Unboxed(x)) /\ AlternativeRegister("event", a, FanKey)
    \/ SendLockMap(1, "event", FanKey)
    \/ SendDropMap(1)
    \/ SendLockAlt(1)
    \/ \E ok \in BOOLEAN : SendAlt(1, ok)
    \/ SendFinish(1)

SpecAlt == Init /\ [][NextAlt]_vars

\* connections that observe the key and go away, cleanups that sweep them, one
\* alternative receiver, and one task that publishes
NextSweep ==
    \/ \E c \in Clients : Connect(c)
    \/ \E c \in Clients : CloseConnection(c)
    \/ \E c \in Clients :
          map_guard["event"] = 0 /\ HandleOBSERVE(c, MaxReqId, "shared", "x")
    \/ Cleanup("event")
    \/ AlternativeRegister("event", 1, FanKey)
    \/ SendLockMap(1, "event", FanKey)
    \/ \E c \in Clients : SendWeak(1, c)
    \/ SendDropMap(1)
    \/ SendLockAlt(1)
    \/ SendAlt(1, TRUE)
    \/ SendFinish(1)

SpecSweep == Init /\ [][NextSweep]_vars

\* tasks that send frames to the first connection at the same time
NextWriter ==
    \/ \E t \in Writers, resp \in WireFrames : WriterLock(t, 1, resp)
    \/ \E t \in Writers : WriterWrite(t)
    \/ \E t \in Writers : WriterFlush(t)

SpecWriter == Init /\ [][NextWriter]_vars

\* connections that bind and release names, store a value and notify
NextName ==
    \/ \E c \in Clients : Connect(c)
    \/ \E c \in Clients : CloseConnection(c)
    \/ \E c \in Clients, n \in Names : HandleSET(c, MaxReqId, "registry", n, <<>>)
    \/ \E c \in Clients, n \in Names : HandleDEL(c, MaxReqId, "registry", n)
    \/ \E c \in Clients, k \in Keys : HandleNOTIFY(c, MaxReqId, k, <<7>>)
    \/ \E c \in Clients, k \in Keys : HandleSET_PRIVATE(c, MaxReqId, k, <<7>>)

SpecName == Init /\ [][NextName]_vars

\* connections that call the named one and answer, while some peer has stopped
\* reading
NextTables ==
    \/ \E c \in Clients : Connect(c)
    \/ \E c \in Clients : HandleSET(c, MaxReqId, "registry", "alice", <<>>)
    \/ \E c \in Clients : BreakWriter(c)
    \/ \E c \in Clients, r \in ReqIds, k \in Keys : HandleCALL(c, r, "alice", k, <<7>>)
    \/ \E c \in Clients, r \in Rids : HandleRESPONSE(c, r, <<7>>)

SpecTables == Init /\ [][NextTables]_vars

\* The first connection takes the name; connections subscribe to its key under
\* request id 1 and then mutate and notify: the named one its own key, every
\* one the key of the named one.
NextAck ==
    \/ \E c \in Clients : Connect(c)
    \/ \E c \in Clients : BreakWriter(c)
    \/ HandleSET(1, MaxReqId, "registry", "alice", <<>>)
    \/ \E c \in Clients, k \in Keys : HandleOBSERVE(c, 1, "alice", k)
    \/ \E c \in Clients, k \in Keys : HandleLISTEN(c, 1, "alice", k)
    \/ \E c \in Clients, k \in Keys : HandleSET(c, MaxReqId, "alice", k, <<7>>)
    \/ \E c \in Clients, k \in Keys : HandleDEL(c, MaxReqId, "alice", k)
    \/ \E k \in Keys : HandleSET_PRIVATE(1, MaxReqId, k, <<7>>)
    \/ \E k \in Keys : HandleDEL_PRIVATE(1, MaxReqId, k)
    \/ \E k \in Keys : HandleNOTIFY(1, MaxReqId, k, <<7>>)

SpecAck == Init /\ [][NextAck]_vars

\* connections that bind and release the name, observe the key of its holder and
\* of the bucket, and mutate: each its own key, every one the key of the holder
\* and of the bucket
NextStore ==
    \/ \E c \in Clients : Connect(c)
    \/ \E c \in Clients : HandleSET(c, MaxReqId, "registry", "alice", <<>>)
    \/ \E c \in Clients : HandleDEL(c, MaxReqId, "registry", "alice")
    \/ \E c \in Clients, t \in {"alice", "shared"}, k \in Keys : HandleOBSERVE(c, 1, t, k)
    \/ \E c \in Clients, k \in Keys : HandleSET_PRIVATE(c, MaxReqId, k, <<7>>)
    \/ \E c \in Clients, k \in Keys : HandleDEL_PRIVATE(c, MaxReqId, k)
    \/ \E c \in Clients, t \in {"alice", "shared"}, k \in Keys :
          HandleSET(c, MaxReqId, t, k, <<>>)
    \/ \E c \in Clients, t \in {"alice", "shared"}, k \in Keys :
          HandleDEL(c, MaxReqId, t, k)

SpecStore == Init /\ [][NextStore]_vars

\* The first connection takes the name, notifies and stores; connections listen
\* to and observe its key. Every request goes through the getter of the broker
\* it uses, whose first calls may race.
NextInstance ==
    \/ \E c \in Clients : Connect(c)
    \/ \E c \in Clients, b \in Brokers : Glimpse(c, b)
    \/ \E c \in Clients, b \in Brokers : Install(c, b)
    \/ Ready(1, "event") /\ HandleSET(1, MaxReqId, "registry", "alice", <<>>)
    \/ \E c \in Clients, r \in ReqIds, k \in Keys :
          Ready(c, "notify") /\ HandleLISTEN(c, r, "alice", k)
    \/ \E c \in Clients, r \in ReqIds, k \in Keys :
          Ready(c, "event") /\ HandleOBSERVE(c, r, "alice", k)
    \/ \E k \in Keys : Ready(1, "notify") /\ HandleNOTIFY(1, MaxReqId, k, <<7>>)
    \/ \E k \in Keys :
          Ready(1, "event") /\ name[1] # None /\ HandleSET_PRIVATE(1, MaxReqId, k, <<7>>)

SpecInstance == Init /\ [][NextInstance]_vars

\* The handler tasks of the connections run passes of handle_loop side by side,
\* interleaved at every lock().await and every drop of a guard.
NextLocks ==
    \/ \E t \in Clients : \E p \in HandlerLocks(t) : Begin(t, p)
    \/ \E t \in Clients : Acquire(t)
    \/ \E t \in Clients : Release(t)

SpecLocks == Init /\ [][NextLocks]_vars

\* ==================================================================== claims
\* the bindings a lookup can see: the entries whose entity has not been dropped
ForwardView == {<<n, forward[n]>> : n \in {k \in DOMAIN forward : Alive(forward[k])}}
ReverseView == {<<reverse[e], e>> : e \in {x \in DOMAIN reverse : Alive(x)}}

\* the last step handled cmd with the registry as its target
RegistryStep(cmd) == last'.req.cmd = cmd /\ last'.req.target = "registry"

RegistryUntouched ==
    /\ forward' = forward
    /\ reverse' = reverse
    /\ name' = name
    /\ published' = <<>>

\* C1: after any interleaving of Registry.set, Registry.del and entity drops, a
\* client entity is the value of at most one forward entry, and forward[n] = e
\* exactly when reverse[e] = n (bindings other than "registry" and "shared").
C1_RegistryUniqueness ==
    /\ \A e \in Clients : Cardinality({b \in ForwardView : b[2] = e}) <= 1
    /\ \A e \in Clients, n \in RegNames : <<n, e>> \in ForwardView <=> <<n, e>> \in ReverseView

\* a name was released by its holder while the other connection holds a name
C1_Witness ==
    /\ last.req.cmd = "DEL"
    /\ last.res = Success
    /\ \E b \in ForwardView : b[2] \in Clients /\ b[2] # last.req.conn

\* C4 as stated: a Registry.set by an entity that already holds a binding fails
\* with "too many names" whatever name it asks for, and changes nothing.
C4_Original ==
    [][ (RegistryStep("SET") /\ WeakKeyGet(reverse, last'.req.conn) # None)
        => (last'.res = Failed(Utf8("too many names")) /\ RegistryUntouched) ]_vars

\* C4 amended: a Registry.set by an entity that already holds a binding fails and
\* changes nothing; the error is "duplicated" when the requested name is bound
\* (the contains_key test comes first) and "too many names" otherwise.
C4_AtMostOneName ==
    [][ (RegistryStep("SET") /\ WeakKeyGet(reverse, last'.req.conn) # None)
        => /\ last'.res = IF WeakValueGet(forward, last'.req.key) # None
                          THEN Failed(Utf8("duplicated"))
                          ELSE Failed(Utf8("too many names"))
           /\ RegistryUntouched ]_vars

\* a second Registry.set was refused with "too many names"
C4_Witness ==
    /\ last.req.cmd = "SET"
    /\ last.req.target = "registry"
    /\ last.res = Failed(Utf8("too many names"))

\* C5: Registry.set on a name bound to a live entity ("registry" and "shared"
\* included) fails with "duplicated"; the binding, the reverse map and the
\* sender's name are unchanged and nothing is published.
C5_Duplicated ==
    [][ (RegistryStep("SET") /\ WeakValueGet(forward, last'.req.key) # None)
        => (last'.res = Failed(Utf8("duplicated")) /\ RegistryUntouched) ]_vars

\* a connection was refused, as duplicated, a name another live connection holds
C5_Witness ==
    /\ last.req.cmd = "SET"
    /\ last.res = Failed(Utf8("duplicated"))
    /\ last.req.key \in Names
    /\ \E b \in ForwardView : b[1] = last.req.key /\ b[2] # last.req.conn

\* C7: Registry.del succeeds only when forward[name] is the sender; a del by
\* another entity is refused as not allowed, a del of an unbound name as not
\* found, and a refused del changes no binding and publishes nothing.
C7_DelOnlyByHolder ==
    [][ RegistryStep("DEL")
        => IF WeakValueGet(forward, last'.req.key) = Some(last'.req.conn)
           THEN last'.res = Success
           ELSE /\ last'.res = IF WeakValueGet(forward, last'.req.key) = None
                               THEN Failed(Utf8("not found"))
                               ELSE Failed(Utf8("not allowned"))
                /\ RegistryUntouched ]_vars

\* a connection was refused the release of a name another connection holds
C7_Witness ==
    /\ last.req.cmd = "DEL"
    /\ last.res = Failed(Utf8("not allowned"))
    /\ \E b \in ForwardView : b[1] = last.req.key /\ b[2] \in Clients

\* C9: "registry" resolves to the Registry and "shared" to the SharedStorage in
\* every reachable state, whatever SET and DEL requests clients send.
C9_PreinstalledBindings ==
    /\ Registry_find(Here, "registry") = Some(RegistryEnt)
    /\ Registry_find(Here, "shared") = Some(SharedEnt)

\* a client that holds no name asked the registry to bind "registry" to it
C9_Witness ==
    /\ last.req.cmd = "SET"
    /\ last.req.target = "registry"
    /\ last.req.key = "registry"
    /\ name[last.req.conn] = None

\* the NEXT frames among the frames written to connection c
NextFrames(frames) == SelectSeq(frames, LAMBDA f : f.kind = "NEXT")

\* what one publication of data under key must put on every connection: one
\* NEXT frame, with the subscription's request id, on each live subscriber's
\* connection, and none on any other connection
DeliveredOnce(key, data) ==
    \A c \in Clients :
        NextFrames(emitted'[c]) =
            IF /\ key \in DOMAIN event_map
               /\ c \in event_map[key]
               /\ status[c] = "open"
               /\ writerOk[c]
               /\ key \in DOMAIN event_subscribe[c]
            THEN <<new_next(event_subscribe[c][key], NextPayload(data))>>
            ELSE <<>>

\* C6: after a successful Registry.set(sender, name, v) every live subscriber to
\* EventKey("registry", name) on the event broker receives exactly one delivery
\* with payload v; after a successful Registry.del of the name, exactly one
\* delivery with payload none.
C6_BindingNotifies ==
    [][ /\ (RegistryStep("SET") /\ last'.res = Success)
            => /\ published' = <<[broker |-> "event",
                                  key |-> EventKey("registry", last'.req.key),
                                  data |-> Some(last'.req.val)]>>
               /\ DeliveredOnce(EventKey("registry", last'.req.key), Some(last'.req.val))
        /\ (RegistryStep("DEL") /\ last'.res = Success)
            => /\ published' = <<[broker |-> "event",
                                  key |-> EventKey("registry", last'.req.key),
                                  data |-> None]>>
               /\ DeliveredOnce(EventKey("registry", last'.req.key), None) ]_vars

\* a name was released and both the holder and the other connection, each an
\* observer of the name, were written the NEXT frame without data
C6_Witness ==
    /\ last.req.cmd = "DEL"
    /\ last.res = Success
    /\ \A c \in Clients : \E r \in ReqIds : NextFrames(emitted[c]) = <<new_next(r, Success)>>

\* the names whose forward entry is left over from a dropped connection: the
\* entity was named, its connection ended, and no del was issued for the name
Expired == {n \in DOMAIN forward : ~Alive(forward[n])}

\* the pairs a KEYS on the registry by connection c has to list
LiveKeys(c) == {<<b[1], IF b[2] = c THEN "public" ELSE "protected">> : b \in ForwardView}

\* C8: once the connection of a named entity has ended, with no del issued, the
\* name resolves to nothing: a request whose target is the name finds no
\* target, the registry reports the name as not found, and KEYS on the
\* registry lists exactly the names of the live entities.
C8_WeakGC ==
    \A n \in Expired :
        /\ (last.req.cmd = "GET" /\ last.req.target = n) => last.res = TargetNotFound
        /\ (last.req.cmd = "GET" /\ last.req.target = "registry" /\ last.req.key = n)
              => last.res = Failed(Utf8("not found"))
        /\ (last.req.cmd = "KEYS" /\ last.req.target = "registry")
              => /\ n \notin {p[1] : p \in LiveKeys(last.req.conn)}
                 /\ last.res.tag = "SuccessWithData"
                 /\ last.res.data \in
                       {EncodeKeys(l) : l \in Orderings(LiveKeys(last.req.conn))}

\* a connection that held a name has ended and the other connection has then
\* asked the registry for its keys
C8_Witness ==
    /\ Expired # {}
    /\ last.req.cmd = "KEYS"
    /\ status[last.req.conn] = "open"

\* the frames of one kind among the frames written to a connection
FramesOf(kind, frames) == SelectSeq(frames, LAMBDA f : f.kind = kind)

\* the calls the RESPONSE of this step answers: those forwarded to the
\* responding connection under the responder id the RESPONSE carries
Answered ==
    {o \in outstanding : o.callee = last'.req.conn /\ o.rid = last'.req.reqid}

\* the callee of a CALL step is a live client connection
CallForwarded ==
    /\ last'.req.cmd = "CALL"
    /\ Registry_find(Here, last'.req.target) # None
    /\ Registry_find(Here, last'.req.target)[1] \in Clients

\* the callee's connection is written one CALL frame, with some responder id
\* and the payload short_text(K) followed by P
CallDelivered ==
    \E rid \in Rids :
        FramesOf("CALL", emitted'[Registry_find(Here, last'.req.target)[1]]) =
            <<new_call(rid, SuccessWithData(encode_short_text(last'.req.key)
                                            \o last'.req.val))>>

\* C2: a CALL by A to B with (R, K, P) writes one CALL frame with some rid and
\* payload short_text(K) P to B's connection; B's RESPONSE with that rid and
\* payload Q writes RESP(R, SuccessWithData(Q)) to A's connection, whatever
\* other calls of A are outstanding.
C2_Original ==
    [][ /\ CallForwarded => CallDelivered
        /\ last'.req.cmd = "RESPONSE"
             => \A o \in Answered :
                   FramesOf("RESP", emitted'[o.caller]) =
                       <<new_resp(o.reqid, SuccessWithData(last'.req.val))>> ]_vars

\* C2 as the code keeps it: the RESPONSE reaches the caller under the caller's
\* request id when the caller's pending_call still maps the responder id to
\* that request id, that is, when no call of the same caller forwarded to
\* another callee under the same responder id has overwritten or used up the
\* entry.
C2_RoutedWhilePending ==
    [][ /\ CallForwarded => CallDelivered
        /\ last'.req.cmd = "RESPONSE"
             => \A o \in Answered :
                   (/\ o.rid \in DOMAIN pending_call[o.caller]
                    /\ pending_call[o.caller][o.rid] = o.reqid)
                   => FramesOf("RESP", emitted'[o.caller]) =
                          <<new_resp(o.reqid, SuccessWithData(last'.req.val))>> ]_vars

\* a callee has answered a call while its caller had another call outstanding,
\* and the caller was written the answer under the request id of its call
C2_Witness ==
    /\ last.req.cmd = "RESPONSE"
    /\ \E c \in Clients :
          /\ c # last.req.conn
          /\ \E r \in ReqIds : emitted[c] = <<new_resp(r, SuccessWithData(last.req.val))>>
          /\ \E o \in outstanding : o.caller = c /\ o.callee = c

\* C3: two calls of one caller that are outstanding at the same time have
\* distinct responder ids, whichever entities they were forwarded to.
C3_Original ==
    \A o1, o2 \in outstanding : (o1.caller = o2.caller /\ o1.rid = o2.rid) => o1 = o2

\* C3 as the code keeps it: gen_random_key rejects the ids of the callee's
\* call_record, so the calls forwarded to one callee have distinct responder
\* ids, and each is recorded in the callee's call_record under its caller.
C3_DistinctPerCallee ==
    \A o1 \in outstanding :
        /\ o1.rid \in DOMAIN call_record[o1.callee]
        /\ call_record[o1.callee][o1.rid] = o1.caller
        /\ \A o2 \in outstanding : (o1.callee = o2.callee /\ o1.rid = o2.rid) => o1 = o2

\* one callee holds two calls at once, under different responder ids
C3_Witness ==
    \E o1, o2 \in outstanding : o1.callee = o2.callee /\ o1.rid # o2.rid

\* the client entity the last request's target name resolves to, if any
RemoteTarget == {e \in Clients : <<last.req.target, e>> \in ForwardView}

\* C10: a GET whose target is a client entity fails with "not allowed" when the
\* key's tag is Private, answers the stored value (SuccessWithData, or Success
\* when the value is none) when the tag is Protected or Public, and fails with
\* "not found" when the entity has no such key.
C10_RemoteGet ==
    \A e \in RemoteTarget :
        last.req.cmd = "GET" =>
            last.res =
                IF last.req.key \notin DOMAIN kvstore[e]
                THEN Failed(Utf8("not found"))
                ELSE IF kvstore[e][last.req.key].tag = "private"
                THEN Failed(Utf8("not allowed"))
                ELSE IF kvstore[e][last.req.key].value = None
                THEN Success
                ELSE SuccessWithData(kvstore[e][last.req.key].value[1])

\* another connection asked for a key that holds a value and is tagged Private
C10_Witness ==
    /\ last.req.cmd = "GET"
    /\ \E e \in RemoteTarget :
          /\ e # last.req.conn
          /\ last.req.key \in DOMAIN kvstore[e]
          /\ kvstore[e][last.req.key] = ValueWithAccess(Some(<<7>>), "private")

\* the entity the step's handler looked its target name up to
StepTarget == Registry_find(Here, last'.req.target)

\* no NEXT frame was written to any connection by the step
NoDelivery == \A d \in Clients : FramesOf("NEXT", emitted'[d]) = <<>>

\* C11: a remote SET or DEL on a key of a client entity whose tag is Protected
\* or Private is refused ("not allowned"), leaves every kvstore as it was and
\* publishes nothing; SET PRIVATE by the owner succeeds whatever the tag and
\* stores the value.
C11_AccessEnforced ==
    [][ /\ \A e \in Clients :
              (/\ last'.req.cmd \in {"SET", "DEL"}
               /\ StepTarget = Some(e)
               /\ last'.req.key \in DOMAIN kvstore[e]
               /\ kvstore[e][last'.req.key].tag \in {"protected", "private"})
              => /\ last'.res = Failed(Utf8("not allowned"))
                 /\ kvstore' = kvstore
                 /\ published' = <<>>
                 /\ NoDelivery
        /\ last'.req.cmd = "SET PRIVATE"
              => /\ last'.res = Success
                 /\ last'.req.key \in DOMAIN kvstore'[last'.req.conn]
                 /\ kvstore'[last'.req.conn][last'.req.key].value = Some(last'.req.val) ]_vars

\* another connection's SET was refused on a key that holds a value and is
\* tagged Protected
C11_Witness ==
    /\ last.req.cmd = "SET"
    /\ last.res = Failed(Utf8("not allowned"))
    /\ \E e \in RemoteTarget :
          /\ e # last.req.conn
          /\ last.req.key \in DOMAIN kvstore[e]
          /\ kvstore[e][last.req.key] = ValueWithAccess(Some(<<7>>), "protected")

\* the one Broker::send a kv mutation of entity e makes when e has a name
OwnPublication(e, key, data) ==
    IF name[e] # None
    THEN <<[broker |-> "event", key |-> EventKey(name[e][1], key), data |-> data]>>
    ELSE <<>>

\* C12: a remote SET on a Public key of a client entity makes exactly one
\* Broker::send on the event broker, under EventKey(entity name, key) with the
\* new bytes, when the entity has a name and none otherwise; afterwards the
\* row holds the new bytes and is still Public.
C12_RemoteSetPublic ==
    [][ \A e \in Clients :
           (/\ last'.req.cmd = "SET"
            /\ StepTarget = Some(e)
            /\ last'.req.key \in DOMAIN kvstore[e]
            /\ kvstore[e][last'.req.key].tag = "public")
           => /\ last'.res = Success
              /\ published' = OwnPublication(e, last'.req.key, Some(last'.req.val))
              /\ kvstore'[e] = [kvstore[e] EXCEPT ![last'.req.key] =
                                   ValueWithAccess(Some(last'.req.val), "public")] ]_vars

\* another connection's SET replaced the value of a Public key and the
\* publication was made under the owner's name
C12_Witness ==
    /\ last.req.cmd = "SET"
    /\ last.res = Success
    /\ \E e \in RemoteTarget :
          /\ e # last.req.conn
          /\ kvstore[e][last.req.key] = ValueWithAccess(Some(last.req.val), "public")
          /\ published = <<[broker |-> "event",
                            key |-> EventKey(last.req.target, last.req.key),
                            data |-> Some(last.req.val)]>>

\* C13: SET PRIVATE leaves the row (value, Public) whatever the key's state was
\* before (absent, Private, Protected or Public), changes no other row, and
\* publishes the value under EventKey(name, key) when the entity has a name.
C13_SetPrivate ==
    [][ last'.req.cmd = "SET PRIVATE"
           => /\ kvstore'[last'.req.conn] =
                    Put(kvstore[last'.req.conn], last'.req.key,
                        ValueWithAccess(Some(last'.req.val), "public"))
              /\ \A d \in Clients \ {last'.req.conn} : kvstore'[d] = kvstore[d]
              /\ published' = OwnPublication(last'.req.conn, last'.req.key,
                                             Some(last'.req.val)) ]_vars

\* a named connection has stored a value with SET PRIVATE and it was published
C13_Witness ==
    /\ last.req.cmd = "SET PRIVATE"
    /\ name[last.req.conn] # None
    /\ kvstore[last.req.conn][last.req.key] = ValueWithAccess(Some(<<7>>), "public")
    /\ published = <<[broker |-> "event",
                      key |-> EventKey(name[last.req.conn][1], last.req.key),
                      data |-> Some(<<7>>)]>>

\* what keys and get of entity e answer a remote sender (neither reads the sender)
KeysOf(e) == ExternalEntity_keys(Here, e, e)
GetOf(e, key) == ExternalEntity_get(Here, e, e, key).res

\* what a successful remote DEL of a Public key of entity e leaves behind: the
\* row without its value, listed by keys as Public, read by get as none
ValueCleared(e) ==
    /\ last'.res = Success
    /\ kvstore'[e] = [kvstore[e] EXCEPT ![last'.req.key] = ValueWithAccess(None, "public")]
    /\ \A k \in Keys : k = last'.req.key => /\ <<k, "public">> \in KeysOf(e)'
                                            /\ GetOf(e, k)' = Ok(None)

\* what DEL PRIVATE leaves behind: no row, so keys does not list the key and get
\* answers "not found"
RowRemoved ==
    /\ last'.res = Success
    /\ kvstore'[last'.req.conn] = Remove(kvstore[last'.req.conn], last'.req.key)
    /\ \A k \in Keys, c \in Clients :
          (k = last'.req.key /\ c = last'.req.conn)
          => /\ k \notin {p[1] : p \in KeysOf(c)'}
             /\ GetOf(c, k)' = strerr("not found")

\* the step's target is a client entity that holds the key with tag Public
DelOfPublic(e) ==
    /\ last'.req.cmd = "DEL"
    /\ StepTarget = Some(e)
    /\ last'.req.key \in DOMAIN kvstore[e]
    /\ kvstore[e][last'.req.key].tag = "public"

\* C14 as stated: a successful remote DEL of a Public key clears only the value
\* and DEL PRIVATE removes the row, and each of the two publishes one none
\* payload.
C14_Original ==
    [][ /\ \A e \in Clients :
              DelOfPublic(e) => /\ ValueCleared(e)
                                /\ Len(published') = 1
                                /\ published'[1].data = None
        /\ last'.req.cmd = "DEL PRIVATE"
              => /\ RowRemoved
                 /\ Len(published') = 1
                 /\ published'[1].data = None ]_vars

\* C14: a successful remote DEL of a Public key clears only the value (the key
\* stays listed as Public and get reads none); DEL PRIVATE removes the row (the
\* key is not listed and get answers "not found"); each publishes none under
\* EventKey(name, key) when the entity has a name, and nothing when it has none.
C14_DelClearsDelPrivateRemoves ==
    [][ /\ \A e \in Clients :
              DelOfPublic(e) => /\ ValueCleared(e)
                                /\ published' = OwnPublication(e, last'.req.key, None)
        /\ last'.req.cmd = "DEL PRIVATE"
              => /\ RowRemoved
                 /\ published' = OwnPublication(last'.req.conn, last'.req.key, None) ]_vars

\* another connection's DEL has cleared the value of a Public key, whose row
\* remains, and none was published under the owner's name
C14_Witness ==
    /\ last.req.cmd = "DEL"
    /\ last.res = Success
    /\ \E e \in RemoteTarget :
          /\ e # last.req.conn
          /\ kvstore[e][last.req.key] = ValueWithAccess(None, "public")
          /\ published = <<[broker |-> "event",
                            key |-> EventKey(last.req.target, last.req.key),
                            data |-> None]>>

\* C15: ACL changes only the access tag: an existing row keeps its value, an
\* absent key gets a row with no value and the given tag, every other row of
\* every entity is as it was, and nothing is published or delivered.
C15_SetAclOnlyTag ==
    [][ last'.req.cmd = "ACL"
           => /\ last'.res = Success
              /\ kvstore'[last'.req.conn] =
                    Put(kvstore[last'.req.conn], last'.req.key,
                        ValueWithAccess(IF last'.req.key \in DOMAIN kvstore[last'.req.conn]
                                        THEN kvstore[last'.req.conn][last'.req.key].value
                                        ELSE None,
                                        last'.req.tag))
              /\ \A d \in Clients \ {last'.req.conn} : kvstore'[d] = kvstore[d]
              /\ published' = <<>>
              /\ NoDelivery ]_vars

\* a named connection has retagged a key that holds a value while its other key
\* holds a row too
C15_Witness ==
    /\ last.req.cmd = "ACL"
    /\ name[last.req.conn] # None
    /\ DOMAIN kvstore[last.req.conn] = AclKeys
    /\ kvstore[last.req.conn][last.req.key] = ValueWithAccess(Some(<<7>>), "private")

\* C20: NOTIFY by a connection without a name is answered Failed("no name") and
\* publishes and delivers nothing; NOTIFY by a named connection makes exactly
\* one Broker::send, on the notify broker, under EventKey(its name, key) with
\* the bytes, and is answered Success.
C20_NotifyNeedsName ==
    [][ last'.req.cmd = "NOTIFY"
           => IF name[last'.req.conn] = None
              THEN /\ last'.res = Failed(Utf8("no name"))
                   /\ published' = <<>>
                   /\ NoDelivery
              ELSE /\ last'.res = Success
                   /\ published' = <<[broker |-> "notify",
                                      key |-> EventKey(name[last'.req.conn][1],
                                                       last'.req.key),
                                      data |-> Some(last'.req.val)]>> ]_vars

\* a named connection's NOTIFY was answered Success and the other connection,
\* listening for the key, was written the NEXT frame with the bytes
C20_Witness ==
    /\ last.req.cmd = "NOTIFY"
    /\ last.res = Success
    /\ name[last.req.conn] # None
    /\ \E d \in Clients \ {last.req.conn} : \E r \in ReqIds :
          FramesOf("NEXT", emitted[d]) = <<new_next(r, SuccessWithData(last.req.val))>>

\* C19: an unknown command is answered with one RESP Failed("Unknown command")
\* under the request's reqid, the only frame written; the loop then ends: the
\* connection's entity is dropped (its name resolves to nothing) and no later
\* step handles a request of that connection.
C19_UnknownCommandTerminates ==
    [][ /\ last'.req.cmd \in UnknownCommands
           => /\ emitted' = [NoFrames EXCEPT ![last'.req.conn] =
                                <<new_resp(last'.req.reqid, Failed(Utf8("Unknown command")))>>]
              /\ status'[last'.req.conn] = "closed"
              /\ \A n \in Names : <<n, last'.req.conn>> \notin ForwardView'
        /\ \A c \in Clients :
              status[c] = "closed" => /\ status'[c] = "closed"
                                      /\ last'.req.conn # c ]_vars

\* a connection that held a name sent an unknown command: it was answered and
\* its name no longer resolves
C19_Witness ==
    /\ last.req.cmd \in UnknownCommands
    /\ emitted[last.req.conn] = <<new_resp(last.req.reqid, Failed(Utf8("Unknown command")))>>
    /\ \E n \in Expired : forward[n] = last.req.conn

\* the responder ids the step added to the call_record of entity e
NewRecordIds(e) == DOMAIN call_record'[e] \ DOMAIN call_record[e]

\* C18: when the CALL frame cannot be written to the callee, the caller is left
\* without a pending_call entry for the responder id drawn, no CALL frame is
\* written, and the caller's gateway answers the request with one Failed RESP
\* under the request's reqid.
C18_CallWriteFailure ==
    [][ \A e \in Clients :
           (/\ last'.req.cmd = "CALL"
            /\ StepTarget = Some(e)
            /\ ~writerOk[e])
           => /\ last'.res.tag = "Failed"
              /\ \A rid \in NewRecordIds(e) : rid \notin DOMAIN pending_call'[last'.req.conn]
              /\ FramesOf("CALL", emitted'[e]) = <<>>
              /\ outstanding' \subseteq outstanding
              /\ writerOk[last'.req.conn]
                    => emitted'[last'.req.conn] =
                          <<new_resp(last'.req.reqid, last'.res)>> ]_vars

\* a connection called a peer that had stopped reading: it was answered Failed
\* and holds no pending call, while the peer's call_record holds the id drawn
C18_Witness ==
    /\ last.req.cmd = "CALL"
    /\ last.res.tag = "Failed"
    /\ emitted[last.req.conn] = <<new_resp(last.req.reqid, last.res)>>
    /\ pending_call[last.req.conn] = EmptyMap
    /\ \E e \in Clients \ {last.req.conn} :
          /\ ~writerOk[e]
          /\ status[e] = "open"
          /\ \E rid \in DOMAIN call_record[e] : call_record[e][rid] = last.req.conn

\* the step handles a RESPONSE or an EXCEPTION
ReplyStep == last'.req.cmd \in {"RESPONSE", "EXCEPTION"}

\* the payload a RESPONSE or EXCEPTION step hands to the caller
ReplyPayload ==
    IF last'.req.cmd = "RESPONSE" THEN SuccessWithData(last'.req.val)
    ELSE Failed(last'.req.val)

\* the RESP frames written to every connection by the step, as (connection, frame)
RespWritten ==
    UNION {{<<c, emitted'[c][i]>> :
               i \in {j \in DOMAIN emitted'[c] : emitted'[c][j].kind = "RESP"}} :
           c \in Clients}

\* an accepted CALL is not answered by its own step, and a step that is not a
\* RESPONSE or EXCEPTION writes RESP frames to the requesting connection only
NoEarlyResp ==
    /\ (CallForwarded /\ last'.res = NoReply) => emitted'[last'.req.conn] =
            IF StepTarget = Some(last'.req.conn)
            THEN FramesOf("CALL", emitted'[last'.req.conn])
            ELSE <<>>
    /\ ~ReplyStep => \A c \in Clients \ {last'.req.conn} : FramesOf("RESP", emitted'[c]) = <<>>

\* C17: the caller of an accepted CALL is written no RESP under the call's
\* reqid before the callee sends RESPONSE or EXCEPTION with the responder id
\* the call was given, and at most one in total: a RESP written by a RESPONSE
\* or EXCEPTION step goes to the caller of a call that step answers, under that
\* call's reqid, once, and the call is then no longer outstanding.
C17_Original ==
    [][ /\ NoEarlyResp
        /\ ReplyStep
             => /\ \A p \in RespWritten :
                      \E o \in Answered : o.caller = p[1] /\ o.reqid = p[2].reqid
                /\ \A c \in Clients : Len(FramesOf("RESP", emitted'[c])) <= 1
                /\ Answered \cap outstanding' = {} ]_vars

\* C17 as the code keeps it: a RESPONSE or EXCEPTION step writes at most one
\* RESP, to the caller the callee's call_record holds for the responder id, and
\* under whatever request id the caller's pending_call holds for that responder
\* id, which is the call's own reqid only while no call of the same caller
\* through another callee was given the same responder id.
C17_OneRespPerRecord ==
    [][ /\ NoEarlyResp
        /\ ReplyStep
             => /\ \A p \in RespWritten :
                      /\ last'.req.reqid \in DOMAIN call_record[last'.req.conn]
                      /\ call_record[last'.req.conn][last'.req.reqid] = p[1]
                      /\ last'.req.reqid \in DOMAIN pending_call[p[1]]
                      /\ p[2] = new_resp(pending_call[p[1]][last'.req.reqid], ReplyPayload)
                /\ \A c \in Clients : Len(FramesOf("RESP", emitted'[c])) <= 1
                /\ Cardinality(RespWritten) <= 1
                /\ Answered \cap outstanding' = {}
                /\ last'.req.reqid \notin DOMAIN call_record'[last'.req.conn] ]_vars

\* a callee's EXCEPTION reached its caller as a Failed RESP
C17_Witness ==
    /\ last.req.cmd = "EXCEPTION"
    /\ \E c \in Clients \ {last.req.conn} : \E r \in ReqIds :
          emitted[c] = <<new_resp(r, Failed(last.req.val))>>

\* the command tokens the arms of handle_loop match, and the unknown ones
GatewayCommands ==
    {"STOP", "PING", "SET PRIVATE", "GET PRIVATE", "DEL PRIVATE", "ACL", "SET", "GET",
     "DEL", "KEYS", "NOTIFY", "LISTEN", "OBSERVE", "CALL", "RESPONSE", "EXCEPTION"}
       \cup UnknownCommands

\* exactly one RESP frame, carrying the request's reqid, is written to the
\* requesting connection
OneResp ==
    /\ Len(FramesOf("RESP", emitted'[last'.req.conn])) = 1
    /\ FramesOf("RESP", emitted'[last'.req.conn])[1].reqid = last'.req.reqid

\* C16 as stated: every request other than RESPONSE and EXCEPTION has exactly
\* one RESP frame with its reqid written to the requesting connection.
C16_Original ==
    [][ (last'.req.cmd \in GatewayCommands \ {"RESPONSE", "EXCEPTION"}) => OneResp ]_vars

\* the requests the gateway does not answer in their own step: STOP, a payload
\* that does not decode, a CALL the target accepted, and a DEL whose target is
\* the shared storage (SharedStorage::del panics)
Unanswered ==
    \/ last'.req.cmd = "STOP"
    \/ last'.res = DecodeError
    \/ last'.req.cmd = "CALL" /\ last'.res = NoReply
    \/ last'.req.cmd = "DEL" /\ StepTarget = Some(SharedEnt)

\* C16: every request other than RESPONSE, EXCEPTION and the unanswered ones
\* has exactly one RESP frame written to the requesting connection, carrying
\* the request's reqid and the handler's result, and no RESP is written to any
\* other connection; an unanswered request has no RESP written in its step.
C16_OneRespPerRequest ==
    [][ (last'.req.cmd \in GatewayCommands \ {"RESPONSE", "EXCEPTION"})
           => IF Unanswered
              THEN \A c \in Clients : FramesOf("RESP", emitted'[c]) = <<>>
              ELSE /\ OneResp
                   /\ FramesOf("RESP", emitted'[last'.req.conn])[1].payload = last'.res
                   /\ \A c \in Clients \ {last'.req.conn} :
                         FramesOf("RESP", emitted'[c]) = <<>> ]_vars

\* a KEYS request on the named connection was answered with the one key it holds
C16_Witness ==
    /\ last.req.cmd = "KEYS"
    /\ last.req.target = "alice"
    /\ last.res = SuccessWithData(encode_short_text("protected") \o encode_short_text("x"))
    /\ emitted[last.req.conn] = <<new_resp(last.req.reqid, last.res)>>

\* C21 as stated: once the name field of a connection's entity holds a name it
\* never takes a different value while the connection lives.
C21_Original ==
    [][ \A c \in Clients :
           (name[c] # None /\ status'[c] = "open") => name'[c] = name[c] ]_vars

\* C21 as the code keeps it: the name field changes only in a successful
\* Registry.set by that connection, which stores the requested name; a
\* Registry.del leaves the field as it was, so a later set of another name by
\* the same connection succeeds and replaces it.
C21_NameFollowsSet ==
    [][ \A c \in Clients :
           (status'[c] = "open" /\ name'[c] # name[c])
           => /\ RegistryStep("SET")
              /\ last'.req.conn = c
              /\ last'.res = Success
              /\ name'[c] = Some(last'.req.key) ]_vars

\* a connection has released its name and still carries it in its name field
C21_Witness ==
    /\ last.req.cmd = "DEL"
    /\ last.res = Success
    /\ name[last.req.conn] = Some(last.req.key)
    /\ \A b \in ReverseView : b[2] # last.req.conn

\* the subscriptions and the weak set a publication on broker b consults
SubscribeOf(b, c) == IF b = "event" THEN event_subscribe[c] ELSE notify_subscribe[c]
MapOf(b) == IF b = "event" THEN event_map ELSE notify_map

\* the step made exactly one Broker::send
OnePublication == Len(published') = 1

\* connection c is a live subscriber of the publication the step made
Subscribed(c) ==
    /\ published'[1].key \in DOMAIN MapOf(published'[1].broker)
    /\ c \in MapOf(published'[1].broker)[published'[1].key]
    /\ status[c] = "open"
    /\ writerOk[c]
    /\ published'[1].key \in DOMAIN SubscribeOf(published'[1].broker, c)

\* the step handled a LISTEN or an OBSERVE of a key the connection was already
\* registered under
Reregistered ==
    /\ last'.req.cmd \in {"LISTEN", "OBSERVE"}
    /\ \E b \in {IF last'.req.cmd = "OBSERVE" THEN "event" ELSE "notify"} :
       \E ek \in {EventKey(last'.req.target, last'.req.key)} :
          /\ ek \in DOMAIN MapOf(b)
          /\ last'.req.conn \in MapOf(b)[ek]

\* C22: registering the same subscriber again under an EventKey leaves the
\* broker's map as it was, and every publication on a key writes exactly one
\* NEXT frame to each live subscriber of the key, however often it registered,
\* and none to any other connection.
C22_BrokerDedup ==
    [][ /\ Reregistered => (event_map' = event_map /\ notify_map' = notify_map)
        /\ OnePublication
             => \A c \in Clients :
                   Len(NextFrames(emitted'[c])) = IF Subscribed(c) THEN 1 ELSE 0 ]_vars

\* alice notified a key that a connection has listened for twice (its
\* subscription carries the second request id) and one NEXT frame was written
C22_Witness ==
    /\ last.req.cmd = "NOTIFY"
    /\ last.res = Success
    /\ \E d \in Clients :
          /\ EventKey("alice", last.req.key) \in DOMAIN notify_subscribe[d]
          /\ notify_subscribe[d][EventKey("alice", last.req.key)] = 2
          /\ Len(NextFrames(emitted[d])) = 1

\* C28: a LISTEN or an OBSERVE records its request id as the subscription of its
\* EventKey, replacing the id recorded before; every publication on the key then
\* writes to the connection exactly one NEXT frame, which carries the id of the
\* latest subscription, and no NEXT frame under an earlier id.
C28_LatestSubscriptionId ==
    [][ /\ last'.req.cmd = "LISTEN"
           => notify_subscribe'[last'.req.conn][EventKey(last'.req.target, last'.req.key)]
                 = last'.req.reqid
        /\ last'.req.cmd = "OBSERVE"
           => event_subscribe'[last'.req.conn][EventKey(last'.req.target, last'.req.key)]
                 = last'.req.reqid
        /\ OnePublication
           => \A c \in Clients :
                 Subscribed(c)
                 => NextFrames(emitted'[c]) =
                       <<new_next(SubscribeOf(published'[1].broker, c)[published'[1].key],
                                  NextPayload(published'[1].data))>> ]_vars

\* a connection listened for alice's key under request id 1 and then under 2,
\* alice notified the key, and the only NEXT frame written carries id 2
C28_Witness ==
    /\ last.req.cmd = "NOTIFY"
    /\ last.res = Success
    /\ \E d \in Clients :
          /\ EventKey("alice", last.req.key) \in DOMAIN notify_subscribe[d]
          /\ NextFrames(emitted[d]) = <<new_next(2, SuccessWithData(last.req.val))>>

\* the step handled a DEL whose target is the shared bucket
SharedDel == last'.req.cmd = "DEL" /\ last'.req.target = "shared"

\* what del on the shared bucket does before it returns, as C26 states it and as
\* the code does it: one publication of none under EventKey("shared", key), and
\* the key is gone from the bucket
SharedDelEffect ==
    /\ published' = <<[broker |-> "event", key |-> EventKey("shared", last'.req.key),
                       data |-> None]>>
    /\ last'.req.key \notin DOMAIN shared_data'

\* C26 as stated: del on the shared bucket publishes none, removes the key and
\* completes normally: the DEL is answered Success and the connection stays open.
C26_Original ==
    [][ SharedDel
           => /\ SharedDelEffect
              /\ last'.res = Success
              /\ emitted'[last'.req.conn] = <<new_resp(last'.req.reqid, Success)>>
              /\ status'[last'.req.conn] = "open" ]_vars

\* C26 as the code behaves: del on the shared bucket publishes none and removes
\* the key, then panics: no RESP is written for the DEL and the connection's
\* task ends, dropping its entity.
C26_SharedDelPanics ==
    [][ SharedDel
           => /\ SharedDelEffect
              /\ last'.res = NoReply
              /\ FramesOf("RESP", emitted'[last'.req.conn]) = <<>>
              /\ status'[last'.req.conn] = "closed" ]_vars

\* a connection deleted a stored key of the shared bucket: the other connection,
\* an observer of the key, was written the NEXT frame without data, and the
\* deleting connection is closed without an answer
C26_Witness ==
    /\ last.req.cmd = "DEL"
    /\ last.req.target = "shared"
    /\ status[last.req.conn] = "closed"
    /\ emitted[last.req.conn] = <<>>
    /\ \E d \in Clients \ {last.req.conn} :
          NextFrames(emitted[d]) = <<new_next(MaxReqId, Success)>>

\* the encodings of the values written from the i-th on, one after the other
RECURSIVE Encodings(_)
Encodings(i) ==
    IF i > Len(codec.sent) THEN <<>>
    ELSE Encode(codec.type, codec.order, codec.sent[i]) \o Encodings(i + 1)

\* C27: whatever Requests, Responses or varuints were written to a stream, every
\* decode returns the value written at its place and leaves on the stream
\* exactly the encodings of the values not yet read; among the varuints are
\* 0, 1, 127, 128, 16383, 16384 and 2^32 - 1.
C27_CodecRoundTrip ==
    /\ Len(codec.got) <= Len(codec.sent)
    /\ \A i \in 1..Len(codec.got) :
          /\ codec.got[i].ok
          /\ codec.got[i].val = Built(codec.type, codec.sent[i])
    /\ codec.wire = Encodings(Len(codec.got) + 1)

\* the varuints 2^32 - 1 and 16384 were written and read back
C27_Witness ==
    /\ codec.type = "varuint"
    /\ codec.sent = <<U32Max, Num(0, 16384)>>
    /\ codec.wire = <<>>
    /\ Len(codec.got) = 2

\* task t ended its send in this step
Finishes(t) == sending[t].pc = "alt" /\ sending'[t].pc = "idle"

\* receiver a was awaited in this step
Consulted(a) == delivered'.alt[a] # delivered.alt[a]

\* C23: when a send has walked the alternative list of its key, the list holds
\* the receivers that returned true, in the order they had, and none of those
\* that returned false, however many did; and no send ever awaits a receiver
\* that has returned false before.
C23_RefusedAreDropped ==
    [][ /\ \A t \in Senders :
              (Finishes(t) /\ sending[t].key \in DOMAIN alt_map[sending[t].broker])
              => alt_map'[sending[t].broker][sending[t].key] =
                    SelectSeq(alt_map[sending[t].broker][sending[t].key],
                              LAMBDA a : a \notin refused)
        /\ \A a \in AltIds : Consulted(a) => a \notin refused ]_vars

\* the first send found three receivers; the first and the third returned false
\* and the list is left with the second
C23_Witness ==
    /\ begun = 1
    /\ last.req.cmd = "finish"
    /\ refused = {1, 3}
    /\ AltList("event", FanKey) = <<2>>

\* the publications of a list are in the order their sends began the fan-out
InSendOrder(seq) == \A i, j \in 1..Len(seq) : i < j => seq[i] < seq[j]

\* C24 as stated: every subscriber of a key, weak or alternative, receives the
\* publications on the key in the order their sends began the fan-out.
C24_Original ==
    /\ \A c \in Clients : InSendOrder(delivered.weak[c])
    /\ \A a \in AltIds : InSendOrder(delivered.alt[a])

\* C24 as the code keeps it: every weak subscriber receives the publications in
\* the order their sends took the lock of the map, and while a send walks the
\* weak set no other send has the lock; an alternative receiver receives each
\* publication once, in the order the sends took the lock of alt_map.
C24_WeakSubscribersInOrder ==
    /\ \A c \in Clients : InSendOrder(delivered.weak[c])
    /\ \A t \in Senders : sending[t].pc = "weak" => map_guard[sending[t].broker] = t
    /\ \A a \in AltIds : \A i, j \in 1..Len(delivered.alt[a]) :
          i # j => delivered.alt[a][i] # delivered.alt[a][j]

\* two sends were made on the key; a connection that observes it received the
\* first and then the second, and the alternative receiver the second and then
\* the first
C24_Witness ==
    /\ \E c \in Clients : delivered.weak[c] = <<1, 2>>
    /\ delivered.alt[1] = <<2, 1>>

\* task t has dropped the guard of the map and awaits, or is about to await,
\* the alternative receivers of its key
PastWeakSet(t) == sending[t].pc \in {"dropped", "alt"}

\* the weak set of some key of broker b holds an expired subscriber
SomethingToSweep(b) ==
    \E k \in DOMAIN BrokerMap(Here, b) : \E c \in BrokerMap(Here, b)[k] : ~Alive(c)

\* C30: a send that is past its weak set, awaiting its alternative receivers,
\* does not hold the lock of the map: a register by a connection (its OBSERVE)
\* and a cleanup with something to sweep can take their step at once, unless
\* another send is walking the weak set.
C30_MapFreeDuringAlt ==
    \A t \in Senders :
       PastWeakSet(t)
       => /\ map_guard[sending[t].broker] # t
          /\ (\A u \in Senders : sending[u].pc # "weak")
             => /\ \A c \in Clients :
                      status[c] = "open"
                      => ENABLED (/\ map_guard["event"] = 0
                                  /\ HandleOBSERVE(c, MaxReqId, "shared", "x"))
                /\ SomethingToSweep("event") => ENABLED Cleanup("event")

\* a cleanup ran while the send was awaiting the alternative receiver
C30_Witness ==
    /\ last.req.cmd = "cleanup"
    /\ sending[1].pc = "alt"
    /\ sending[1].idx = 1
    /\ AltList("event", FanKey) = <<1>>

\* the subscribers of key k in the event broker's map whose entity is alive
LiveIn(k) == {c \in event_map[k] : status[c] = "open"}

\* connection c is open and has observed key k
Observes(c, k) == status[c] = "open" /\ k \in DOMAIN event_subscribe[c]

\* C29: a cleanup of the event broker leaves under every key exactly the
\* subscribers whose entity is alive, removes the keys left without any, and
\* leaves the alternative lists and the other broker's map as they were; so a
\* connection that observes a key stays in the key's set as long as it is open,
\* and a send that has walked the set has delivered to every such connection.
C29_CleanupSweepsExpired ==
    [][ /\ last'.req.cmd = "cleanup"
           => /\ DOMAIN event_map' = {k \in DOMAIN event_map : LiveIn(k) # {}}
              /\ \A k \in DOMAIN event_map' : event_map'[k] = LiveIn(k)
              /\ alt_map' = alt_map
              /\ notify_map' = notify_map
        /\ \A c \in Clients : \A k \in DOMAIN event_subscribe'[c] :
              Observes(c, k)' => (k \in DOMAIN event_map' /\ c \in event_map'[k])
        /\ \A t \in Senders :
              (sending[t].pc = "weak" /\ sending'[t].pc = "dropped")
              => \A c \in Clients :
                    Observes(c, sending[t].key)
                    => /\ delivered.weak[c] # <<>>
                       /\ delivered.weak[c][Len(delivered.weak[c])] = sending[t].n ]_vars

\* a connection received the first publication and went away, a cleanup swept
\* it from the set, and the second publication reached the connection that
\* still observes the key; the alternative list still holds its receiver
C29_Witness ==
    /\ \E c, d \in Clients :
          /\ status[d] = "closed"
          /\ delivered.weak[d] = <<1>>
          /\ FanKey \in DOMAIN event_map
          /\ event_map[FanKey] = {c}
          /\ delivered.weak[c] = <<1, 2>>
    /\ AltList("event", FanKey) = <<1>>

\* the bytes of the frames of a list, one frame after the other
RECURSIVE FrameBytes(_)
FrameBytes(frames) ==
    IF frames = <<>> THEN <<>>
    ELSE EncodeResponse(HostOrder, OnWire(Head(frames))) \o FrameBytes(Tail(frames))

\* the bytes of a list of write calls
RECURSIVE Flat(_)
Flat(parts) == IF parts = <<>> THEN <<>> ELSE Head(parts) \o Flat(Tail(parts))

\* the bytes the holder of connection c's writer has still to write
Unwritten(c) ==
    IF writer_guard[c] = 0 THEN <<>> ELSE Flat(writing[writer_guard[c]].parts)

\* C25: the bytes on a connection's stream are the encodings of whole frames,
\* one after the other in the order their sends took the writer's lock, the
\* last of them possibly still being written: no byte of a RESP, NEXT or CALL
\* frame lies inside another frame.
C25_FramesWrittenWhole ==
    \A c \in Clients : wire[c] \o Unwritten(c) = FrameBytes(framed[c])

\* two tasks sent a NEXT frame and a RESP frame to the connection; the second
\* took the writer's lock after the first had flushed, and both are on the stream
C25_Witness ==
    /\ framed[1] = <<new_next(2, SuccessWithData(<<7>>)), new_resp(1, Success)>>
    /\ writer_guard[1] = 0
    /\ wire[1] # <<>>

\* the registry binds name n to the live connection c
Binds(n, c) == <<n, c>> \in ForwardView

\* C32 as stated: in every reachable state the name field of a live connection's
\* entity is Some(n) exactly when the registry binds n to that connection.
C32_Original ==
    \A c \in Clients : \A n \in Names :
       status[c] = "open" => (name[c] = Some(n) <=> Binds(n, c))

\* C32 as the code keeps it: a name the registry binds to a live connection is
\* in that connection's name field, but the field outlives the binding: a
\* NOTIFY or a SET PRIVATE by a connection publishes under the name in its field
\* whether or not the registry still binds it.
C32_NameOutlivesBinding ==
    [][ /\ \A c \in Clients : \A n \in Names : Binds(n, c)' => name'[c] = Some(n)
        /\ \A c \in Clients :
              (/\ last'.req.conn = c
               /\ last'.req.cmd \in {"NOTIFY", "SET PRIVATE"}
               /\ name[c] # None)
              => /\ Len(published') = 1
                 /\ published'[1].key = EventKey(name[c][1], last'.req.key)
                 /\ published'[1].broker =
                       IF last'.req.cmd = "NOTIFY" THEN "notify" ELSE "event" ]_vars

\* a connection that released "alice" has notified under it, while the registry
\* binds "alice" to no connection
C32_Witness ==
    /\ last.req.cmd = "NOTIFY"
    /\ last.res = Success
    /\ name[last.req.conn] = Some("alice")
    /\ \A c \in Clients : ~Binds("alice", c)
    /\ Len(published) = 1
    /\ published[1].key = EventKey("alice", last.req.key)

\* the entries of pending_call the step removed or replaced, as (caller, rid, reqid)
Consumed ==
    UNION {{<<a, rid, pending_call[a][rid]>> :
               rid \in {x \in DOMAIN pending_call[a] :
                           x \notin DOMAIN pending_call'[a]
                           \/ pending_call'[a][x] # pending_call[a][x]}} :
           a \in Clients}

\* C33 as stated: a RESPONSE or EXCEPTION with responder id rid on connection X
\* uses up a pending_call entry, and writes a RESP, only for a call that was
\* forwarded to X under rid; never for a call its caller addressed to another
\* entity.
C33_Original ==
    [][ ReplyStep
           => /\ \A u \in Consumed :
                    \E o \in Answered : o.caller = u[1] /\ o.rid = u[2] /\ o.reqid = u[3]
              /\ \A p \in RespWritten :
                    \E o \in Answered : o.caller = p[1] /\ o.reqid = p[2].reqid ]_vars

\* C33 as the code keeps it: the RESPONSE or EXCEPTION goes to the caller that
\* X's call_record holds under rid, and there it uses up whatever entry the
\* caller's pending_call holds under rid, which belongs to the last call of
\* that caller that was given rid, by X or by any other callee.
C33_ConsumesByResponderId ==
    [][ ReplyStep
           => /\ \A u \in Consumed :
                    /\ u[2] = last'.req.reqid
                    /\ u[2] \in DOMAIN call_record[last'.req.conn]
                    /\ call_record[last'.req.conn][u[2]] = u[1]
                    /\ pending_call'[u[1]] = Remove(pending_call[u[1]], u[2])
                    /\ <<u[1], new_resp(u[3], ReplyPayload)>> \in RespWritten
                         \/ ~writerOk[u[1]]
              /\ \A a \in Clients :
                    (\A u \in Consumed : u[1] # a) => pending_call'[a] = pending_call[a]
              /\ Cardinality(Consumed) <= 1 ]_vars

\* a callee's RESPONSE has been delivered to its caller as the answer of a call
\* that the caller addressed to another entity, which has yet to answer
C33_Witness ==
    /\ last.req.cmd = "RESPONSE"
    /\ \E o \in outstanding :
          /\ o.callee # last.req.conn
          /\ o.rid = last.req.reqid
          /\ o.rid \notin DOMAIN pending_call[o.caller]
          /\ emitted[o.caller] = <<new_resp(o.reqid, SuccessWithData(last.req.val))>>

\* callee b's call_record holds rid for the live caller a
Recorded(a, b, rid) ==
    /\ rid \in DOMAIN call_record[b]
    /\ call_record[b][rid] = a
    /\ Alive(a)

\* caller a's pending_call holds rid for a call it made through callee b
Pending(a, b, rid) ==
    /\ rid \in DOMAIN pending_call[a]
    /\ \E o \in outstanding :
          /\ o.caller = a /\ o.callee = b /\ o.rid = rid
          /\ pending_call[a][rid] = o.reqid

\* C34 as stated: between requests the two call tables agree: a live callee's
\* call_record holds rid for a live caller exactly when that caller's
\* pending_call holds rid for that call.
C34_Original ==
    \A a, b \in Clients : \A rid \in Rids :
       status[b] = "open" => (Recorded(a, b, rid) <=> Pending(a, b, rid))

\* C34 as the code keeps it, while no connection has ended: every pending_call
\* entry is matched by the call_record entry of a callee, but not the other way
\* round: a CALL whose frame could not be written takes its pending_call entry
\* back and leaves the call_record entry it inserted.
C34_RecordOutlivesPending ==
    [][ (\A c \in Clients : status'[c] # "closed")
           => /\ \A a, b \in Clients : \A rid \in Rids :
                    Pending(a, b, rid)' => Recorded(a, b, rid)'
              /\ \A a \in Clients : \A rid \in DOMAIN pending_call'[a] :
                    \E b \in Clients : Recorded(a, b, rid)'
              /\ \A e \in Clients :
                    (/\ last'.req.cmd = "CALL"
                     /\ StepTarget = Some(e)
                     /\ ~writerOk[e])
                    => /\ Cardinality(NewRecordIds(e)) = 1
                       /\ \A rid \in NewRecordIds(e) :
                             /\ call_record'[e][rid] = last'.req.conn
                             /\ rid \notin DOMAIN pending_call'[last'.req.conn]
                       /\ pending_call' = pending_call ]_vars

\* two calls could not be written to the callee: its call_record holds both
\* responder ids while no connection holds a pending call
C34_Witness ==
    /\ \A c \in Clients : status[c] = "open" /\ pending_call[c] = EmptyMap
    /\ \E e \in Clients : Cardinality(DOMAIN call_record[e]) = 2
    /\ outstanding = {}

\* the commands that publish and then acknowledge
Mutators == {"SET", "DEL", "SET PRIVATE", "DEL PRIVATE", "NOTIFY"}

\* where, among the writes of the step, the RESP Success of its request and the
\* NEXT frames stand
RespAt ==
    {i \in DOMAIN written' :
        written'[i] = <<last'.req.conn, new_resp(last'.req.reqid, Success)>>}
NextAt == {i \in DOMAIN written' : written'[i][2].kind = "NEXT"}

\* before the step, connection c is a live weak subscriber of publication p, holds
\* a subscription for its key and still accepts frames
Reached(c, p) ==
    /\ p.key \in DOMAIN MapOf(p.broker)
    /\ c \in MapOf(p.broker)[p.key]
    /\ status[c] = "open"
    /\ writerOk[c]
    /\ p.key \in DOMAIN SubscribeOf(p.broker, c)

\* C35: when the gateway writes the RESP Success of a SET, DEL, SET PRIVATE,
\* DEL PRIVATE or NOTIFY, every NEXT frame of the publications that request
\* made has been written before it, one to each live weak subscriber.
C35_FanoutBeforeAck ==
    [][ (last'.req.cmd \in Mutators /\ RespAt # {})
           => /\ \A i \in NextAt : \A j \in RespAt : i < j
              /\ \A n \in DOMAIN published' : \A c \in Clients :
                    Reached(c, published'[n])
                    => \E i \in NextAt :
                          written'[i] =
                             <<c, new_next(SubscribeOf(published'[n].broker, c)
                                              [published'[n].key],
                                           NextPayload(published'[n].data))>> ]_vars

\* a remote SET was acknowledged after the NEXT frame of its publication had been
\* written to another connection
C35_Witness ==
    /\ last.req.cmd = "SET"
    /\ last.req.target = "alice"
    /\ Len(written) = 2
    /\ written[1][1] # last.req.conn
    /\ written[1][2] = new_next(1, SuccessWithData(<<7>>))
    /\ written[2] = <<last.req.conn, new_resp(last.req.reqid, Success)>>

\* the value stored under key k in the kvstore of entity e, and in the bucket
StoredIn(e, k) == IF k \in DOMAIN kvstore[e] THEN kvstore[e][k].value ELSE None
StoredShared(k) == IF k \in DOMAIN shared_data THEN Some(shared_data[k]) ELSE None

\* the publications of the step on the event broker under owner n
EventsUnder(n) ==
    SelectSeq(published', LAMBDA p : p.broker = "event" /\ p.key[1] = n)

\* every observer of the publication that was subscribed before the step and
\* lives after it was written the publication's payload
Observed(p) ==
    \A c \in Clients :
       (Reached(c, p) /\ status'[c] = "open")
       => new_next(event_subscribe[c][p.key], NextPayload(p.data)) \in
             {emitted'[c][i] : i \in DOMAIN emitted'[c]}

\* the step mutated the bucket and published the value it left
SharedInStep(k) ==
    /\ StoredShared(k)' # StoredShared(k)
          => /\ EventsUnder("shared") # <<>>
             /\ Observed(EventsUnder("shared")[1])
    /\ \A i \in DOMAIN EventsUnder("shared") :
          EventsUnder("shared")[i].key[2] = k
          => EventsUnder("shared")[i].data = StoredShared(k)'

\* C36 as stated, one step at a time: a step that changes the value stored
\* under key k of the entity the registry binds to n publishes it once and
\* every observer of (n, k) is written it; a publication under (n, k) carries
\* the value that the step leaves stored under k in the entity bound to n (none
\* when it is cleared or removed); likewise for the bucket.
C36_Original ==
    [][ \A k \in Keys :
          /\ SharedInStep(k)
          /\ \A n \in Names :
                /\ Len(EventsUnder(n)) <= 1
                /\ \A e \in Clients :
                      (Binds(n, e) /\ Binds(n, e)' /\ StoredIn(e, k)' # StoredIn(e, k))
                      => /\ EventsUnder(n) # <<>>
                         /\ Observed(EventsUnder(n)[1])
                /\ \A i \in DOMAIN EventsUnder(n) :
                      EventsUnder(n)[i].key[2] = k
                      => \E e \in Clients :
                            /\ Binds(n, e)'
                            /\ EventsUnder(n)[i].data = StoredIn(e, k)' ]_vars

\* C36 as the code keeps it: the same with "the entity whose name field holds
\* n" in place of "the entity the registry binds to n". The publication is made
\* by the mutated entity under the name in its field, which a Registry.del does
\* not clear, so an observer of (n, k) is also written the values of an entity
\* that has released n.
C36_PublishedUnderNameField ==
    [][ \A k \in Keys :
          /\ SharedInStep(k)
          /\ \A n \in Names :
                /\ Len(EventsUnder(n)) <= 1
                /\ \A e \in Clients :
                      (/\ name[e] = Some(n)
                       /\ status'[e] = "open"
                       /\ StoredIn(e, k)' # StoredIn(e, k))
                      => /\ EventsUnder(n) # <<>>
                         /\ Observed(EventsUnder(n)[1])
                /\ \A i \in DOMAIN EventsUnder(n) :
                      EventsUnder(n)[i].key[2] = k
                      => \E e \in Clients :
                            /\ name[e] = Some(n)
                            /\ status'[e] = "open"
                            /\ EventsUnder(n)[i].data = StoredIn(e, k)' ]_vars

\* a connection that released "alice" has stored a value under its key: the
\* connection that now holds "alice" and observes the key was written the
\* value, while its own store holds nothing under the key
C36_Witness ==
    /\ last.req.cmd = "SET PRIVATE"
    /\ name[last.req.conn] = Some("alice")
    /\ \E f \in Clients \ {last.req.conn} :
          /\ Binds("alice", f)
          /\ emitted[f] = <<new_next(1, SuccessWithData(last.req.val))>>
          /\ StoredIn(f, last.req.key) = None

\* the publications of the step connection c holds a subscription for
Heard(c) ==
    {n \in DOMAIN published' :
        published'[n].key \in DOMAIN SubscribeOf(published'[n].broker, c)}

\* the NEXT frames the step wrote to c for its publication n
NextFor(c, n) ==
    {i \in DOMAIN emitted'[c] :
        emitted'[c][i] = new_next(SubscribeOf(published'[n].broker, c)[published'[n].key],
                                  NextPayload(published'[n].data))}

\* C37 as stated: once LISTEN (OBSERVE) on a key has been acknowledged to a
\* connection, every later send on that key on the notify (event) broker made
\* while the connection lives and accepts frames writes exactly one NEXT frame
\* to it, carrying the request id of the subscription.
C37_Original ==
    [][ \A c \in Clients :
           (status[c] = "open" /\ status'[c] = "open" /\ writerOk[c])
           => \A n \in Heard(c) : Cardinality(NextFor(c, n)) = 1 ]_vars

\* C37 as the code has it: a send writes exactly one NEXT frame to every live
\* subscriber still in the weak set of the broker the getter returns; an
\* acknowledged LISTEN or OBSERVE leaves the connection in that set, with its
\* request id recorded; and a live subscriber leaves the set only when a task
\* that raced on the first call of the getter writes a new broker over the
\* static, after which publications on the key are dropped without a frame.
C37_DroppedAfterRacingInit ==
    [][ /\ \A c \in Clients : \A n \in DOMAIN published' :
              (Reached(c, published'[n]) /\ status'[c] = "open")
              => Cardinality(NextFor(c, n)) = 1
        /\ (last'.req.cmd \in {"LISTEN", "OBSERVE"} /\ last'.res = Success)
              => \A c \in Clients, b \in Brokers, k \in Keys :
                    (/\ c = last'.req.conn
                     /\ b = (IF last'.req.cmd = "LISTEN" THEN "notify" ELSE "event")
                     /\ k = last'.req.key
                     /\ last'.req.target = "alice")
                    => /\ EventKey("alice", k) \in DOMAIN MapOf(b)'
                       /\ c \in MapOf(b)'[EventKey("alice", k)]
                       /\ EventKey("alice", k) \in DOMAIN SubscribeOf(b, c)'
                       /\ SubscribeOf(b, c)'[EventKey("alice", k)] = last'.req.reqid
        /\ \A c \in Clients, b \in Brokers : \A ek \in DOMAIN MapOf(b) :
              (c \in MapOf(b)[ek] /\ status'[c] = "open"
                   /\ ~(ek \in DOMAIN MapOf(b)' /\ c \in MapOf(b)'[ek]))
              => (last'.req.cmd = "install" /\ last'.req.target = b) ]_vars

\* a NOTIFY was published and acknowledged while another live connection, whose
\* LISTEN on the key had been acknowledged, was written no frame
C37_Witness ==
    /\ last.req.cmd = "NOTIFY"
    /\ last.res = Success
    /\ Len(published) = 1
    /\ \E c \in Clients \ {last.req.conn} :
          /\ status[c] = "open"
          /\ writerOk[c]
          /\ published[1].key \in DOMAIN notify_subscribe[c]
          /\ emitted[c] = <<>>

\* the place of a mutex in the order the handlers take them in
Rank(l) ==
    CASE l.kind \in {"registry", "shared", "kvstore", "call_record"} -> 0
      [] l.kind = "name" -> 1
      [] l.kind \in {"event_map", "notify_map"} -> 2
      [] l.kind \in {"event_alt", "notify_alt"} -> 3
      [] l.kind \in {"event_subscribe", "notify_subscribe"} -> 4
      [] l.kind = "pending_call" -> 5
      [] l.kind = "writer" -> 6

\* task t waits at a lock().await for a mutex that task u holds
WaitsFor(t, u) == \E l \in held[u] : Wants(t, l)

\* C31: the handlers take the mutexes of the registry, the stores, the name
\* fields, the broker maps, the subscription maps, the call tables and the
\* writers in one acyclic order (every mutex a task locks stands after all it
\* holds), so in no reachable state is there a set of tasks each waiting for a
\* mutex held by a task of the set.
C31_NoDeadlock ==
    /\ \A t \in Clients :
          (prog[t] # <<>> /\ prog[t][1][1] = "lock")
          => \A l \in held[t] : Rank(l) < Rank(prog[t][1][2])
    /\ \A S \in SUBSET Clients :
          S # {} => \E t \in S : \A u \in S : ~WaitsFor(t, u)

\* a task holding the guards of a store, a name field, a broker map and a
\* subscription map waits for the writer of a connection whose own task holds
\* it together with the guard of a call table
C31_Witness ==
    \E t \in Clients : \E u \in Clients \ {t} :
       /\ WaitsFor(t, u)
       /\ Wants(t, Lock("writer", u))
       /\ Cardinality(held[t]) >= 4
       /\ Cardinality(held[u]) >= 2

=============================================================================
